---- MODULE Spec2Model ----
(***************************************************************************)
(* Model of the incremental alignment engine of transcribe.py: the         *)
(* IncrementalAligner, the recovery fallbacks, the progress store and the  *)
(* orchestrator loop of main(), including process restarts (resume).       *)
(*                                                                         *)
(* Times are integer milliseconds.  Sequences are 1-based in TLA+; every   *)
(* index that the Python code keeps (cursor, sent_idx, stop_idx, end_idx)  *)
(* keeps its 0-based value, and element k of a Python list is seq[k+1].    *)
(***************************************************************************)
EXTENDS Integers, Sequences, FiniteSets, TLC

\* ---------------------------------------------------------------------
\* Program constants
\* ---------------------------------------------------------------------
MIN_MATCH_MS == 200
RECOVER_LOOKAHEAD_SENTENCES == 8
MAX_EXTRA_TOKENS == 6
MARGIN_MS == 1500

\* Python None for an int-valued field (start_ms, end_ms, stop_idx, chunk).
None == 0 - 1000000
\* Python None for a string-valued field (audio_file, forced_src, last_audio).
NoSrc == ""

\* ---------------------------------------------------------------------
\* Bounds of the model
\* ---------------------------------------------------------------------
\* Number of process restarts (crash or re-invocation) in one behaviour.
MaxRestarts == 1
\* Iterations of the recovery loop of one file that are counted.
MaxIters == 30

\* ---------------------------------------------------------------------
\* Small helpers
\* ---------------------------------------------------------------------
Max(a, b) == IF a >= b THEN a ELSE b
Min(a, b) == IF a <= b THEN a ELSE b
Range(s) == {s[i] : i \in 1..Len(s)}

RECURSIVE SumSeq(_)
SumSeq(s) == IF s = <<>> THEN 0 ELSE s[1] + SumSeq(Tail(s))

\* ---------------------------------------------------------------------
\* Inputs: audio list, sentence streams, ASR output
\* ---------------------------------------------------------------------
\* scan_audio: the ordered list of audio file names of the run.
VARIABLE audios

\* The audio lists a VOICE folder may hold (none, or three files).
AudioLists == { <<>>, <<"a1.wav", "a2.wav", "a3.wav">> }
AudioNames == audios
NumAudios == Len(AudioNames)

\* A sentence: text (an identifier of the visible text, 0 = empty string),
\* chars = len(text.strip()), tokens, and the meta fields placeholder/chunk.
Sent(text, chars, tokens, ph, chunk) ==
    [text |-> text, chars |-> chars, tokens |-> tokens, placeholder |-> ph, chunk |-> chunk]

\* The sentence streams main() can build in its three modes.
PlainStream ==
    << Sent(1, 10, <<1>>, FALSE, None), Sent(2, 20, <<2>>, FALSE, None),
       Sent(3, 10, <<3>>, FALSE, None) >>
ChunkStreamA ==
    << Sent(1, 10, <<1>>, FALSE, 0), Sent(2, 20, <<2>>, FALSE, 1),
       Sent(3, 10, <<3>>, FALSE, 1) >>
ChunkStreamB ==
    << Sent(1, 10, <<1>>, FALSE, 0), Sent(2, 20, <<2>>, FALSE, 0),
       Sent(3, 10, <<3>>, FALSE, 1) >>
PartsStream ==
    << Sent(1, 10, <<1>>, FALSE, None), Sent(0, 0, <<>>, TRUE, None),
       Sent(3, 10, <<3>>, FALSE, None) >>

Scenarios ==
    { [mode |-> "plain",  sentences |-> PlainStream],
      [mode |-> "chunks", sentences |-> ChunkStreamA],
      [mode |-> "chunks", sentences |-> ChunkStreamB],
      [mode |-> "parts",  sentences |-> PartsStream],
      [mode |-> "plain",  sentences |-> <<>>] }

\* A word of the ASR collaborator: token, start and end in ms, local to the file.
W(tok, st, en) == [tok |-> tok, start |-> st, end |-> en]

\* Outputs of transcribe_words for one file, with the real duration of the file.
AsrOutputs ==
    { [words |-> <<>>,                                             dur |-> 1000],
      [words |-> <<W(1, 0, 400), W(2, 450, 800)>>,                 dur |-> 1000],
      [words |-> <<W(3, 100, 600)>>,                               dur |-> 1000],
      [words |-> <<W(1, 900, 1000)>>,                              dur |-> 1000],
      [words |-> <<W(3, 850, 1000)>>,                              dur |-> 1000],
      [words |-> <<W(2, 0, 500), W(3, 400, 900)>>,                 dur |-> 1000],
      [words |-> <<W(1, 0, 300), W(2, 300, 600), W(3, 600, 950)>>, dur |-> 1000],
      [words |-> <<W(1, 0, 400), W(3, 3000, 3500)>>,               dur |-> 4000] }

\* The outputs the files after the second one range over.
AsrTail ==
    { [words |-> <<>>,               dur |-> 1000],
      [words |-> <<W(3, 100, 600)>>, dur |-> 1000] }

\* ---------------------------------------------------------------------
\* Sentence builder: chunk ranges
\* ---------------------------------------------------------------------
RECURSIVE RebuildFrom(_, _, _, _)
RebuildFrom(sents, i, start, prev_chunk) ==
    IF i >= Len(sents) THEN << <<start, Len(sents)>> >>
    ELSE IF sents[i + 1].chunk # prev_chunk
         THEN << <<start, i>> >> \o RebuildFrom(sents, i + 1, i, sents[i + 1].chunk)
         ELSE RebuildFrom(sents, i + 1, start, prev_chunk)

rebuild_chunk_ranges(sents) ==
    IF sents = <<>> THEN <<>> ELSE RebuildFrom(sents, 0, 0, sents[1].chunk)

\* chunk_ranges as main() has it after sentence construction.
ChunkRangesOf(mode, sents) ==
    IF mode = "chunks" THEN rebuild_chunk_ranges(sents) ELSE <<>>

\* ---------------------------------------------------------------------
\* IncrementalAligner
\* ---------------------------------------------------------------------
\* IncrementalAligner.__init__
NewAligner ==
    [ words |-> <<>>, cursor |-> 0, sent_idx |-> 0,
      last_start_ms |-> 0 - 1, last_end_ms |-> 0 - 1,
      stop_idx |-> None, forced_src |-> NoSrc, results |-> <<>> ]

\* One entry of aligner.results: (sentence, start_ms, end_ms, audio_file).
\* The sentence is the one at the entry's position.  kind and dom are
\* history fields: which operation appended the entry, and the value
\* _dominant_src gives for the matched window.
Res(st, en, src, kind, dom) ==
    [start_ms |-> st, end_ms |-> en, audio_file |-> src, kind |-> kind, dom |-> dom]

\* _best_score(...) >= score_threshold.  The fuzzy library is taken on a
\* vocabulary of mutually dissimilar tokens: token_set_ratio and
\* partial_ratio give 100 when the tokens of one side are all among the
\* tokens of the other, and every metric stays below 62 otherwise.
ScoreHit(sent_tokens, win_tokens) ==
    LET A == Range(sent_tokens)
        B == Range(win_tokens)
    IN  A # {} /\ B # {} /\ (A \subseteq B \/ B \subseteq A)

\* _end_idx_from_matches: walk both token sequences; tokens are atomic here,
\* so the 2-3 token merges never apply and only equality advances sent_i.
RECURSIVE EndIdxWalk(_, _, _, _, _)
EndIdxWalk(sent_comp, win_comp, sent_i, w_i, last_match) ==
    IF sent_i >= Len(sent_comp) \/ w_i >= Len(win_comp) THEN last_match
    ELSE IF sent_comp[sent_i + 1] = win_comp[w_i + 1]
         THEN EndIdxWalk(sent_comp, win_comp, sent_i + 1, w_i + 1, w_i)
         ELSE EndIdxWalk(sent_comp, win_comp, sent_i, w_i + 1, last_match)

end_idx_from_matches(sent_tokens, win_tokens, start_idx, fallback_end_idx) ==
    IF sent_tokens = <<>> THEN fallback_end_idx
    ELSE LET last_match == EndIdxWalk(sent_tokens, win_tokens, 0, 0, None)
         IN  IF last_match = None THEN fallback_end_idx
             ELSE start_idx + last_match + 1

\* _ptr_for_time: first word index whose end >= t_ms, len(words) if none.
RECURSIVE PtrFrom(_, _, _)
PtrFrom(words, t_ms, k) ==
    IF k >= Len(words) THEN Len(words)
    ELSE IF words[k + 1].end >= t_ms THEN k ELSE PtrFrom(words, t_ms, k + 1)

ptr_for_time(words, t_ms) == PtrFrom(words, t_ms, 0)

\* _dominant_src(i, j, st_ms, en_ms): source with the largest overlap with
\* [st, en] among words[i:j]; then the source of the first word ending at or
\* after st; then the majority by word count.
OverlapOf(words, i, j, st_ms, en_ms, sname) ==
    LET idxs == {k \in (i + 1)..j : words[k].src = sname}
        ov(k) == Max(0, Min(words[k].end, en_ms) - Max(words[k].start, st_ms))
        RECURSIVE Sum(_)
        Sum(S) == IF S = {} THEN 0
                  ELSE LET k == CHOOSE x \in S : TRUE IN ov(k) + Sum(S \ {k})
    IN  Sum(idxs)

FirstPos(words, i, j, sname) ==
    CHOOSE k \in (i + 1)..j : words[k].src = sname
                              /\ \A m \in (i + 1)..(k - 1) : words[m].src # sname

dominant_src(words, i, j, st_ms, en_ms) ==
    LET names  == {words[k].src : k \in (i + 1)..j} \ {NoSrc}
        scored == {n \in names : OverlapOf(words, i, j, st_ms, en_ms, n) > 0}
        cross  == {k \in (i + 1)..j : words[k].end >= st_ms}
        count(n) == Cardinality({k \in (i + 1)..j : words[k].src = n})
    IN  IF st_ms = None \/ en_ms = None THEN NoSrc
        ELSE IF scored # {}
        THEN CHOOSE n \in scored :
                \A m \in scored \ {n} :
                    \/ OverlapOf(words, i, j, st_ms, en_ms, n) > OverlapOf(words, i, j, st_ms, en_ms, m)
                    \/ /\ OverlapOf(words, i, j, st_ms, en_ms, n) = OverlapOf(words, i, j, st_ms, en_ms, m)
                       /\ FirstPos(words, i, j, n) < FirstPos(words, i, j, m)
        ELSE IF cross # {}
        THEN words[CHOOSE k \in cross : \A m \in cross : k <= m].src
        ELSE IF names # {}
        THEN CHOOSE n \in names :
                \A m \in names \ {n} :
                    \/ count(n) > count(m)
                    \/ count(n) = count(m) /\ FirstPos(words, i, j, n) < FirstPos(words, i, j, m)
        ELSE NoSrc

\* _try_match_sentence_core --------------------------------------------
NoHit == [hit |-> FALSE]

Expansions(aggressive) ==
    IF aggressive THEN <<6, 8, 10, 13, 16, 20, 25>> ELSE <<10, 13, 16, 20>>

BaseLens(L) == <<L, Max(1, (L * 8) \div 10), Max(1, (L * 12) \div 10)>>

MaxLen(L, aggressive) ==
    L + Max(MAX_EXTRA_TOKENS, (L * (IF aggressive THEN 6 ELSE 2)) \div 10)

\* cand: the window sizes of one expansion, in order, without repeats,
\* not larger than the words still available nor than max_len.
RECURSIVE CandFrom(_, _, _, _, _)
CandFrom(base, p, exp10, avail, acc) ==
    IF p > Len(base) THEN acc
    ELSE LET k == Max(1, (base[p] * exp10) \div 10)
         IN  IF k \notin Range(acc) /\ k <= avail
             THEN CandFrom(base, p + 1, exp10, avail, Append(acc, k))
             ELSE CandFrom(base, p + 1, exp10, avail, acc)

Cand(L, exp10, avail, aggressive) ==
    SelectSeq(CandFrom(BaseLens(L), 1, exp10, avail, <<>>),
              LAMBDA k : k <= MaxLen(L, aggressive))

WinTokens(words, i, k) == [p \in 1..k |-> words[i + p].tok]

\* Timing commit of an accepted window words[i:i+k] whose matched part ends
\* at word end_idx: st after last_end_ms, span of at least MIN_MATCH_MS.
HitSpan(words, last_end_ms, i, k, end_idx) ==
    LET st  == Max(words[i + 1].start, last_end_ms + 1)
        en1 == Max(words[end_idx].end, st)
        en  == IF (en1 - st) < MIN_MATCH_MS THEN st + MIN_MATCH_MS ELSE en1
    IN  [hit |-> TRUE, st |-> st, en |-> en, end_idx |-> end_idx, i |-> i, k |-> k]

\* An accepted window words[i:i+k]: its end index, then its times.
HitAt(words, last_end_ms, tokens, i, k) ==
    HitSpan(words, last_end_ms, i, k,
            end_idx_from_matches(tokens, WinTokens(words, i, k), i, i + k))

\* Sliding scan of one window size k from position i.
RECURSIVE ScanK(_, _, _, _, _, _)
ScanK(words, last_end_ms, tokens, k, i, step) ==
    IF i + k > Len(words) THEN NoHit
    ELSE IF ScoreHit(tokens, WinTokens(words, i, k))
         THEN HitAt(words, last_end_ms, tokens, i, k)
         ELSE ScanK(words, last_end_ms, tokens, k, i + step, step)

\* The first hit is returned; without one the scan goes on.
OrElse(h, rest) == IF h.hit THEN h ELSE rest

\* The window sizes of one expansion, each scanned from the cursor.
RECURSIVE ScanCand(_, _, _, _, _, _, _)
ScanCand(words, cursor, last_end_ms, tokens, cand, p, aggressive) ==
    IF p > Len(cand) THEN NoHit
    ELSE OrElse(ScanK(words, last_end_ms, tokens, cand[p], cursor,
                      Max(1, cand[p] \div (IF aggressive THEN 10 ELSE 6))),
                ScanCand(words, cursor, last_end_ms, tokens, cand, p + 1, aggressive))

\* The expansions, in order.
RECURSIVE ScanExp(_, _, _, _, _, _)
ScanExp(words, cursor, last_end_ms, tokens, e, aggressive) ==
    IF e > Len(Expansions(aggressive)) THEN NoHit
    ELSE OrElse(ScanCand(words, cursor, last_end_ms, tokens,
                         Cand(Max(1, Len(tokens)), Expansions(aggressive)[e],
                              Len(words) - cursor, aggressive),
                         1, aggressive),
                ScanExp(words, cursor, last_end_ms, tokens, e + 1, aggressive))

\* The tail-anchor branch needs len(tokens) >= 8 and the scan budget
\* dyn_limit is at least 4000; neither is reached by the streams above.
try_match_sentence_core(a, s, aggressive) ==
    ScanExp(a.words, a.cursor, a.last_end_ms, s.tokens, 1, aggressive)

\* A commit that appends the result and leaves sent_idx where it is.
CommitHit_same_idx(a, h) ==
    [a EXCEPT !.results = Append(@, Res(h.st, h.en,
                                        IF a.forced_src # NoSrc THEN a.forced_src ELSE NoSrc,
                                        "match",
                                        dominant_src(a.words, h.i, h.i + h.k, h.st, h.en))),
              !.last_start_ms = h.st,
              !.last_end_ms = h.en,
              !.cursor = Min(Len(a.words), Max(a.cursor, h.end_idx))]

\* _try_match_sentence: commit a hit.
CommitHit(a, h) ==
    [a EXCEPT !.results = Append(@, Res(h.st, h.en,
                                        IF a.forced_src # NoSrc THEN a.forced_src ELSE NoSrc,
                                        "match",
                                        dominant_src(a.words, h.i, h.i + h.k, h.st, h.en))),
              !.last_start_ms = h.st,
              !.last_end_ms = h.en,
              !.cursor = Min(Len(a.words), Max(a.cursor, h.end_idx)),
              !.sent_idx = @ + 1]

\* A placeholder that takes the end of the previous result as its times.
CommitPlaceholder_timed(a) ==
    [a EXCEPT !.results = Append(@, Res(a.last_end_ms, a.last_end_ms, NoSrc, "placeholder", NoSrc)),
              !.last_start_ms = a.last_end_ms,
              !.sent_idx = @ + 1]

\* "self.results.append((s, None, None, None)); self.sent_idx += 1"
CommitPlaceholder(a) ==
    [a EXCEPT !.results = Append(@, Res(None, None, NoSrc, "placeholder", NoSrc)),
              !.sent_idx = @ + 1]

\* A drive loop that never tests the chunk bound.
StopReached_never(a) == FALSE

\* An end of file that leaves the stamp and the bound of the file in place.
ClearFile_kept(a) == a

\* main(): "aligner.forced_src = None; aligner.stop_idx = None" after a file.
ClearFile(a) == [a EXCEPT !.forced_src = NoSrc, !.stop_idx = None]

\* The chunk bound of the drive loop: "stop_idx is not None and sent_idx >= stop_idx".
StopReached(a) == a.stop_idx # None /\ a.sent_idx >= a.stop_idx

RECURSIVE DriveLoop(_, _)
\* "matched = self._try_match_sentence(s, ...); if not matched: break"
AfterTry(a, sents, h) == IF h.hit THEN DriveLoop(CommitHit(a, h), sents) ELSE a

\* The drive loop of extend_words_and_align.
DriveLoop(a, sents) ==
    IF a.sent_idx >= Len(sents) THEN a
    ELSE IF StopReached(a) THEN a
    ELSE IF sents[a.sent_idx + 1].placeholder
         THEN DriveLoop(CommitPlaceholder(a), sents)
         ELSE AfterTry(a, sents, try_match_sentence_core(a, sents[a.sent_idx + 1], FALSE))

\* A replacement that leaves the cursor where it was.
extend_words_and_align_same_cursor(a, sents, new_words, src) ==
    LET kept == SelectSeq(a.words, LAMBDA w : w.src # src)
        a1 == IF src # NoSrc /\ a.words # <<>> /\ Len(kept) # Len(a.words)
              THEN [a EXCEPT !.words = kept]
              ELSE a
        a2 == [a1 EXCEPT !.words = @ \o new_words]
    IN  DriveLoop(a2, sents)

\* extend_words_and_align(new_words, src): new_words are already tagged
\* with src and shifted to the global timeline.
extend_words_and_align(a, sents, new_words, src) ==
    LET kept == SelectSeq(a.words, LAMBDA w : w.src # src)
        a1 == IF src # NoSrc /\ a.words # <<>> /\ Len(kept) # Len(a.words)
              THEN [a EXCEPT !.words = kept,
                             !.cursor = Min(Len(kept), ptr_for_time(kept, a.last_end_ms + 1))]
              ELSE a
        a2 == [a1 EXCEPT !.words = @ \o new_words]
    IN  DriveLoop(a2, sents)

\* ---------------------------------------------------------------------
\* Recovery (closures of main)
\* ---------------------------------------------------------------------
\* _last_end_ms_for_file
last_end_ms_for_file(results, fname, file_start_ms) ==
    LET ends == {results[i].end_ms : i \in {j \in 1..Len(results) :
                        results[j].audio_file = fname /\ results[j].end_ms # None}}
        above == {e \in ends : e > file_start_ms}
    IN  IF above = {} THEN file_start_ms
        ELSE CHOOSE e \in above : \A f \in above : f <= e

\* int(round(p / q)) for p >= 0, q > 0: Python rounds halves to even.
RoundHalfEven(p, q) ==
    LET f == p \div q
        r2 == 2 * (p % q)
    IN  IF r2 < q THEN f
        ELSE IF r2 > q THEN f + 1
        ELSE IF f % 2 = 0 THEN f ELSE f + 1

\* "fix rounding drift": the while loop of _weighted_durations.
RECURSIVE DriftFix(_, _, _, _)
DriftFix(out, diff, step, i) ==
    LET n == Len(out)
        idx == (i % n) + 1
    IN  IF diff = 0 \/ i >= n * 2 THEN out
        ELSE IF out[idx] + step >= 0
             THEN DriftFix([out EXCEPT ![idx] = @ + step], diff - step, step, i + 1)
             ELSE DriftFix(out, diff, step, i + 1)

\* _weighted_durations: "out = [int(round(x)) for x in raw]".
RawDurations(total_ms, weights, min_each) ==
    LET n == Len(weights)
        scaled == total_ms < min_each * n
        weight_sum == IF SumSeq(weights) = 0 THEN 1 ELSE SumSeq(weights)
        remaining == IF scaled THEN 0 ELSE Max(0, total_ms - min_each * n)
    IN  [i \in 1..n |->
            IF scaled THEN RoundHalfEven(total_ms, n)
            ELSE RoundHalfEven(min_each * weight_sum + remaining * weights[i], weight_sum)]

\* "fix rounding drift"
FixDrift(out, total_ms) ==
    LET diff == total_ms - SumSeq(out)
    IN  IF diff # 0 THEN DriftFix(out, diff, IF diff > 0 THEN 1 ELSE 0 - 1, 0) ELSE out

\* "if out[i] < 1: out[i] = 1"
AtLeastOne(out) == [i \in 1..Len(out) |-> IF out[i] < 1 THEN 1 ELSE out[i]]

\* "if total != total_ms: out[-1] += total_ms - total"
FixTotal(out, total_ms) ==
    LET total == SumSeq(out)
    IN  IF total # total_ms THEN [out EXCEPT ![Len(out)] = @ + (total_ms - total)] ELSE out

\* _weighted_durations(total_ms, weights, min_each)
weighted_durations(total_ms, weights, min_each) ==
    IF Len(weights) = 0 THEN <<>>
    ELSE IF total_ms <= 0 THEN [i \in 1..Len(weights) |-> 0]
    ELSE FixTotal(AtLeastOne(FixDrift(RawDurations(total_ms, weights, min_each), total_ms)),
                  total_ms)

Weights(sents, from, to) ==
    [p \in 1..(to - from) |-> Max(1, sents[from + p].chars)]

\* Contiguous spans of the given durations starting at cur, stamped with audio_name.
RECURSIVE Spans(_, _, _, _)
Spans(durs, cur, audio_name, kind) ==
    IF durs = <<>> THEN <<>>
    ELSE <<Res(cur, cur + durs[1], audio_name, kind, NoSrc)>>
         \o Spans(Tail(durs), cur + durs[1], audio_name, kind)

\* An approximation that leaves sent_idx where it was.
ApproxCommit_same_idx(a, res, chunk_end_idx) ==
    [a EXCEPT !.results = res,
              !.last_start_ms = res[Len(res)].start_ms,
              !.last_end_ms = res[Len(res)].end_ms,
              !.cursor = ptr_for_time(a.words, res[Len(res)].end_ms + 1)]

\* _approximate_missing_chunk: the results and the cursors after the loop.
ApproxCommit(a, res, chunk_end_idx) ==
    [a EXCEPT !.results = res,
              !.sent_idx = chunk_end_idx,
              !.last_start_ms = res[Len(res)].start_ms,
              !.last_end_ms = res[Len(res)].end_ms,
              !.cursor = ptr_for_time(a.words, res[Len(res)].end_ms + 1)]

\* "force last end to file end"
EndAtFileEnd(res, file_end_ms) == [res EXCEPT ![Len(res)].end_ms = file_end_ms]

\* The spans of the sentences sent_idx .. chunk_end_idx-1 from base_start on.
ApproxSpans(a, sents, chunk_end_idx, audio_name, base_start, file_end_ms) ==
    Spans(weighted_durations(Max(0, file_end_ms - base_start),
                             Weights(sents, a.sent_idx, chunk_end_idx), MIN_MATCH_MS),
          base_start, audio_name, "approx")

\* _approximate_missing_chunk: the aligner afterwards; unchanged when it returns False.
approximate_missing_chunk(a, sents, chunk_end_idx, audio_name, file_start_ms, file_end_ms) ==
    IF chunk_end_idx = None \/ a.sent_idx >= chunk_end_idx THEN a
    ELSE ApproxCommit(a,
            EndAtFileEnd(a.results \o ApproxSpans(a, sents, chunk_end_idx, audio_name,
                            Min(Max(file_start_ms,
                                    last_end_ms_for_file(a.results, audio_name, file_start_ms) + 1),
                                file_end_ms),
                            file_end_ms),
                         file_end_ms),
            chunk_end_idx)

\* "if hit: anchor_idx = j; anchor_hit = hit; break"
AnchorOr(j, h, rest) == IF h.hit THEN [found |-> TRUE, idx |-> j, hit |-> h] ELSE rest

\* The anchor search of _recover_with_anchor: first j in
\* start_idx+1 .. max_idx-1 that the aggressive matcher hits.
RECURSIVE AnchorSearch(_, _, _, _)
AnchorSearch(a, sents, j, max_idx) ==
    IF j >= max_idx THEN [found |-> FALSE]
    ELSE AnchorOr(j, try_match_sentence_core(a, sents[j + 1], TRUE),
                  AnchorSearch(a, sents, j + 1, max_idx))

FindAnchor(a, sents, chunk_end_idx) ==
    IF chunk_end_idx = None \/ a.sent_idx >= chunk_end_idx THEN [found |-> FALSE]
    ELSE AnchorSearch(a, sents, a.sent_idx + 1,
                      Min(chunk_end_idx, a.sent_idx + Max(1, RECOVER_LOOKAHEAD_SENTENCES) + 1))

\* The anchor's committed (start_ms, end_ms), from the end of the gap (cur).
AnchorSpan(anchor_start, st0, en0, cur, file_start_ms, file_end_ms) ==
    LET st1 == Max(Max(anchor_start, st0), cur)
        en1 == Max(en0, st1 + MIN_MATCH_MS)
        en  == IF en1 > file_end_ms THEN file_end_ms ELSE en1
        st  == IF en1 > file_end_ms /\ en < st1
               THEN Max(file_start_ms, en - MIN_MATCH_MS) ELSE st1
    IN  [st |-> st, en |-> en]

\* _recover_with_anchor: anchor_start, at least MIN_MATCH_MS per gap sentence
\* after base_start and not past the file end.
AnchorStart(anc, start_idx, base_start, file_end_ms) ==
    LET anchor0 == Max(base_start, anc.hit.st)
        min_total == MIN_MATCH_MS * (anc.idx - start_idx)
    IN  IF (anchor0 - base_start) < min_total
        THEN Min(file_end_ms, base_start + min_total) ELSE anchor0

\* The interpolated spans of the gap sentences start_idx .. anchor_idx-1.
GapSpans(sents, start_idx, anchor_idx, base_start, anchor_start, audio_name) ==
    Spans(weighted_durations(Max(0, anchor_start - base_start),
                             Weights(sents, start_idx, anchor_idx), MIN_MATCH_MS),
          base_start, audio_name, "gap")

\* The gap and then the anchor are appended.
AnchorAppend(a, anc, gap, span, audio_name) ==
    [a EXCEPT !.results = (@ \o gap) \o <<Res(span.st, span.en, audio_name, "anchor", NoSrc)>>,
              !.sent_idx = anc.idx + 1,
              !.last_start_ms = span.st,
              !.last_end_ms = span.en,
              !.cursor = Min(Len(a.words), Max(a.cursor, anc.hit.end_idx))]

\* The anchor starts where the gap ends.
AnchorAfterGap(a, anc, gap, base_start, anchor_start, audio_name, file_start_ms, file_end_ms) ==
    AnchorAppend(a, anc, gap,
                 AnchorSpan(anchor_start, anc.hit.st, anc.hit.en,
                            IF gap = <<>> THEN base_start ELSE gap[Len(gap)].end_ms,
                            file_start_ms, file_end_ms),
                 audio_name)

\* The gap is spread between base_start and anchor_start.
AnchorFrom(a, sents, anc, base_start, anchor_start, audio_name, file_start_ms, file_end_ms) ==
    AnchorAfterGap(a, anc,
                   GapSpans(sents, a.sent_idx, anc.idx, base_start, anchor_start, audio_name),
                   base_start, anchor_start, audio_name, file_start_ms, file_end_ms)

\* "if anchor_idx is None: return False"
AnchorCommit(a, sents, anc, base_start, audio_name, file_start_ms, file_end_ms) ==
    IF ~anc.found THEN [ok |-> FALSE, a |-> a]
    ELSE [ok |-> TRUE,
          a |-> AnchorFrom(a, sents, anc, base_start,
                           AnchorStart(anc, a.sent_idx, base_start, file_end_ms),
                           audio_name, file_start_ms, file_end_ms)]

\* _recover_with_anchor: what it returns (ok) and the aligner afterwards.
recover_with_anchor(a, sents, chunk_end_idx, audio_name, file_start_ms, file_end_ms) ==
    AnchorCommit(a, sents, FindAnchor(a, sents, chunk_end_idx),
                 Max(file_start_ms, last_end_ms_for_file(a.results, audio_name, file_start_ms) + 1),
                 audio_name, file_start_ms, file_end_ms)

\* ---------------------------------------------------------------------
\* Progress store
\* ---------------------------------------------------------------------
\* processed_audio_totals: name -> cumulative seconds (0 when absent).
NoTotals == [n \in Range(AudioNames) |-> 0]

\* The meta dict main() builds: the progress sub-dict flattened, the ledger
\* and its totals.
NewMeta(sents) ==
    [ status |-> "processing", total |-> Len(sents), current |-> 0,
      audios_done |-> 0, last_audio |-> NoSrc, total_duration_sec |-> 0,
      problem_audio |-> NoSrc, unrecognized_text |-> None,
      processed_audio |-> <<>>, processed_audio_totals |-> NoTotals ]

\* _build_item: the fields of an item that depend on the alignment.
Item(i, sent, st, en, src) ==
    [idx |-> i, text |-> sent.text, start_ms |-> st, end_ms |-> en, audio_file |-> src]

\* _sync_progress_meta
sync_progress_meta(m, results, sents, status) ==
    [m EXCEPT !.status = IF status # "" THEN status
                         ELSE IF @ = "done" THEN "success"
                         ELSE IF @ \notin {"processing", "success", "error"} THEN "processing"
                         ELSE @,
              !.total = Len(sents),
              !.current = Len(results)]

\* _reset_progress_on_start
reset_progress_on_start(m) ==
    [m EXCEPT !.status = IF @ = "error" THEN "processing" ELSE @,
              !.problem_audio = NoSrc,
              !.unrecognized_text = None]

\* _prepare_meta_for_write: processed_audio_totals is not written.
prepare_meta_for_write(m) == [m EXCEPT !.processed_audio_totals = NoTotals]

\* The transcript file: absent, or {meta, items}.
NoFile == [exists |-> FALSE, meta |-> NewMeta(<<>>), items |-> <<>>]
\* _SAVE_ITEMS_CACHE of one process: empty, or the items of the last save/load.
NoCache == [set |-> FALSE, items |-> <<>>]

\* _load_existing_items
load_existing_items(dsk, cch) ==
    IF cch.set THEN cch.items
    ELSE IF dsk.exists THEN dsk.items
    ELSE <<>>

\* A save that never patches the times of a placeholder.
PlaceholderPatch_off(st, is_placeholder, last_end_ms) == FALSE

\* save_progress_json: a placeholder without times inherits the previous end.
PlaceholderPatch(st, is_placeholder, last_end_ms) ==
    st = None /\ is_placeholder /\ last_end_ms # None

\* The item loop of save_progress_json, from sentence i on.
RECURSIVE BuildItems(_, _, _, _, _, _)
BuildItems(results, sents, existing_items, i, last_end_ms, last_audio_file) ==
    IF i >= Len(sents) THEN <<>>
    ELSE LET sent == sents[i + 1]
             has == i < Len(results)
             st0 == IF has THEN results[i + 1].start_ms ELSE None
             en0 == IF has THEN results[i + 1].end_ms ELSE None
             src0 == IF has THEN results[i + 1].audio_file ELSE NoSrc
             prev_ok == /\ st0 = None
                        /\ i < Len(existing_items)
                        /\ existing_items[i + 1].text # 0
                        /\ existing_items[i + 1].text = sent.text
                        /\ existing_items[i + 1].start_ms # None
             st1 == IF prev_ok THEN existing_items[i + 1].start_ms ELSE st0
             en1 == IF prev_ok THEN existing_items[i + 1].end_ms ELSE en0
             src1 == IF prev_ok THEN existing_items[i + 1].audio_file ELSE src0
             patch == PlaceholderPatch(st1, sent.placeholder, last_end_ms)
             st == IF patch THEN last_end_ms ELSE st1
             en == IF patch THEN last_end_ms ELSE en1
             src == IF patch /\ src1 = NoSrc THEN last_audio_file ELSE src1
             le == IF en # None THEN en ELSE last_end_ms
             la == IF en # None /\ src # NoSrc THEN src ELSE last_audio_file
         IN  <<Item(i, sent, st, en, src)>>
             \o BuildItems(results, sents, existing_items, i + 1, le, la)

\* The payload written, and _SAVE_ITEMS_CACHE[out_path] = items.
Saved(m1, items) ==
    [ meta |-> m1,
      disk |-> [exists |-> TRUE, meta |-> prepare_meta_for_write(m1), items |-> items],
      cache |-> [set |-> TRUE, items |-> items] ]

\* A save that writes the meta but leaves the items of the last save.
save_progress_json_meta_only(results, m, sents, dsk, cch) ==
    Saved(sync_progress_meta(m, results, sents, ""),
          BuildItems(<<>>, sents, load_existing_items(dsk, cch), 0, None, NoSrc))

\* save_progress_json: the meta, the transcript written and the cache afterwards.
save_progress_json(results, m, sents, dsk, cch) ==
    Saved(sync_progress_meta(m, results, sents, ""),
          BuildItems(results, sents, load_existing_items(dsk, cch), 0, None, NoSrc))

\* ---------------------------------------------------------------------
\* Resume helpers
\* ---------------------------------------------------------------------
Entry(name, last, total) == [name |-> name, last |-> last, total |-> total]

processed_audio_names(entries) == [i \in 1..Len(entries) |-> entries[i].name]

\* _normalize_processed_audio_list: the normalized list and the totals.
normalize_processed_audio_list(m, processed_raw) ==
    LET norm(e) == Entry(e.name, e.last, Max(e.total, e.last))
        out == [i \in 1..Len(processed_raw) |-> norm(processed_raw[i])]
        best(n) == LET S == {out[i].total : i \in {j \in 1..Len(out) : out[j].name = n}}
                             \cup {m.processed_audio_totals[n]}
                   IN  CHOOSE x \in S : \A y \in S : y <= x
    IN  [out |-> out, totals |-> [n \in Range(AudioNames) |-> best(n)]]

\* Names of the items selected by keep, in order of first appearance.
RECURSIVE OrderedNames(_, _, _, _)
OrderedNames(items, i, seen, need_end) ==
    IF i > Len(items) THEN <<>>
    ELSE LET name == items[i].audio_file
         IN  IF name # NoSrc /\ (~need_end \/ items[i].end_ms # None) /\ name \notin seen
             THEN <<name>> \o OrderedNames(items, i + 1, seen \cup {name}, need_end)
             ELSE OrderedNames(items, i + 1, seen, need_end)

\* _sanitize_processed_audio: the ledger rebuilt from the items' audio_file.
RebuiltLedger(items, totals, need_end) ==
    LET names == OrderedNames(items, 1, {}, need_end)
    IN  [i \in 1..Len(names) |-> Entry(names[i], 0, totals[names[i]])]

IndexOfName(names, n) == CHOOSE i \in 1..Len(names) : names[i] = n /\ \A j \in 1..(i - 1) : names[j] # n

\* _sanitize_processed_audio, given the normalized ledger nz.
SanitizeWith(ex, nz) ==
    LET processed == nz.out
        m1 == [ex.meta EXCEPT !.processed_audio = processed, !.processed_audio_totals = nz.totals]
        timed == {i \in 1..Len(ex.items) : ex.items[i].audio_file # NoSrc /\ ex.items[i].end_ms # None}
        last_audio == IF timed = {} THEN NoSrc
                      ELSE ex.items[CHOOSE i \in timed : \A j \in timed : j <= i].audio_file
        names == processed_audio_names(processed)
        rebuilt0 == RebuiltLedger(ex.items, nz.totals, TRUE)
        trimmed == IF last_audio = NoSrc THEN <<>>
                   ELSE IF last_audio \in Range(names)
                        THEN SubSeq(processed, 1, IndexOfName(names, last_audio))
                   ELSE RebuiltLedger(ex.items, nz.totals, FALSE)
        WithLedger(led) ==
            [m1 EXCEPT !.processed_audio = led,
                       !.last_audio = IF led = <<>> THEN NoSrc ELSE led[Len(led)].name,
                       !.audios_done = Len(led)]
    IN  IF processed = <<>>
        THEN [ex EXCEPT !.meta = IF rebuilt0 # <<>> THEN WithLedger(rebuilt0) ELSE m1]
        ELSE [ex EXCEPT !.meta = WithLedger(trimmed)]

\* _sanitize_processed_audio
sanitize_processed_audio(ex) ==
    SanitizeWith(ex, normalize_processed_audio_list(ex.meta, ex.meta.processed_audio))

\* _rewind_last_audio, given the normalized ledger nz.
RewindWith(ex, nz) ==
    LET n == Len(nz.out)
        last_audio == nz.out[n].name
        m1 == [ex.meta EXCEPT !.processed_audio_totals = nz.totals]
    IN  IF n = 0 THEN [ex |-> [ex EXCEPT !.meta = m1], name |-> NoSrc]
        ELSE [ ex |-> [ex EXCEPT
                        !.meta = [m1 EXCEPT !.processed_audio = SubSeq(nz.out, 1, n - 1)],
                        !.items = [i \in 1..Len(ex.items) |->
                                     IF ex.items[i].audio_file = last_audio
                                     THEN [ex.items[i] EXCEPT !.start_ms = None, !.end_ms = None,
                                                              !.audio_file = NoSrc]
                                     ELSE ex.items[i]]],
               name |-> last_audio ]

\* _rewind_last_audio: existing afterwards and the name returned.
rewind_last_audio(ex) ==
    RewindWith(ex, normalize_processed_audio_list(ex.meta, ex.meta.processed_audio))

\* A replay that does not compare the texts.
ReplayStops_any_text(item, sent) == item.start_ms = None

\* _prime_from_existing: the replay stops at an item whose text differs from
\* the sentence or whose start_ms is null.
ReplayStops(item, sent) == item.text # sent.text \/ item.start_ms = None

\* The replay loop of _prime_from_existing, from item k on.
RECURSIVE Replay(_, _, _, _)
Replay(items, sents, a, k) ==
    IF k >= Min(Len(items), Len(sents)) THEN [a EXCEPT !.sent_idx = Min(Len(items), Len(sents))]
    ELSE IF ReplayStops(items[k + 1], sents[k + 1]) THEN [a EXCEPT !.sent_idx = k]
    ELSE LET st == items[k + 1].start_ms
             en_eff == IF items[k + 1].end_ms # None THEN items[k + 1].end_ms ELSE st
         IN  Replay(items, sents,
                    [a EXCEPT !.results = Append(@, Res(st, en_eff, items[k + 1].audio_file, "replay", NoSrc)),
                              !.last_start_ms = st,
                              !.last_end_ms = en_eff],
                    k + 1)

\* _prime_from_existing: the cursor is aligned to last_end_ms after the replay.
PrimeWith(nz, a1) ==
    [ aligner |-> [a1 EXCEPT !.cursor = ptr_for_time(a1.words, a1.last_end_ms + 1)],
      processed_audio |-> nz.out,
      totals |-> nz.totals ]

\* _prime_from_existing: the aligner afterwards, and the ledger it returns.
prime_from_existing(ex, sents, a) ==
    PrimeWith(normalize_processed_audio_list(ex.meta, ex.meta.processed_audio),
              Replay(ex.items, sents, a, 0))

\* _record_processed_audio
record_processed_audio(m, name, attempt_sec) ==
    LET total == m.processed_audio_totals[name] + Max(0, attempt_sec)
    IN  [m EXCEPT !.processed_audio = Append(@, Entry(name, Max(0, attempt_sec), total)),
                  !.processed_audio_totals = [@ EXCEPT ![name] = total]]

\* ---------------------------------------------------------------------
\* State
\* ---------------------------------------------------------------------
VARIABLES
    mode,               \* args.mode / chunkLimit / textPartsPath: how the stream is built
    sentences,          \* the sentence stream of the current process
    asr,                \* file index -> output of transcribe_words and real duration
    aligner,            \* the IncrementalAligner
    meta,               \* the meta dict of main()
    disk,               \* the transcript file at out_path
    cache,              \* _SAVE_ITEMS_CACHE[out_path]
    existing,           \* main(): existing, after sanitize and rewind
    rewound_audio,      \* main(): rewound_audio
    skip_audio_names,   \* main(): skip_audio_names
    running_offset,     \* main(): running_offset, in ms
    idx,                \* main(): 1-based index of the audio file in the for loop
    loc,                \* main(): locals of the current loop iteration
    pc,                 \* position of main(): start, file, loop, endfile, done
    out,                \* the terminal lines written by final_log so far
    exit_code,          \* exit status of the process (None while it runs)
    restarts,           \* number of process restarts so far
    budget,             \* number of process restarts this behaviour is followed through
    golden,             \* history: transcript of the completed uninterrupted run
    crashes,            \* history: where the processes on this out_path were stopped
    edited,             \* history: the script was edited between two processes
    recorded,           \* history: file name -> cumulative of its latest ledger entry
    contributed,        \* history: files during whose processing sent_idx advanced
    asr_workers_requested,  \* main(): asr_workers_requested
    pending,            \* main(): pending, file name -> the job submitted for it
    next_submit_idx,    \* main(): next_submit_idx (0-based)
    futures,            \* the jobs submitted to the executor, in order of submission
    job_pair,           \* main(): job_pair, the job whose result the loop waits for
    consumed,           \* history: loop index and audio item of every result taken
    ASR_SUPPRESS_STATE, \* _ASR_SUPPRESS_STATE
    sys_stdout,         \* the binding of sys.stdout
    sys_stderr,         \* the binding of sys.stderr
    warn_filters,       \* warnings.filters
    log_levels,         \* the level of the loggers of _ASR_SUPPRESS_TARGETS
    fsys,               \* path -> content of the file (out_path and out_path.tmp)
    replacing           \* the frame of save_progress_json / _atomic_replace_with_retry

\* The thread pool, the suppression scope and the streams of the process.
poolvars == << asr_workers_requested, pending, next_submit_idx, futures, job_pair, consumed,
               ASR_SUPPRESS_STATE, sys_stdout, sys_stderr, warn_filters, log_levels >>

\* The files of one save and the frame of the replace.
savevars == << fsys, replacing >>

vars == << audios, mode, sentences, asr, aligner, meta, disk, cache, existing, rewound_audio,
           skip_audio_names, running_offset, idx, loc, pc, out, exit_code, restarts,
           budget, golden, crashes, edited, recorded, contributed, poolvars, savevars >>

chunk_ranges == ChunkRangesOf(mode, sentences)

NoExisting == [loaded |-> FALSE, meta |-> NewMeta(<<>>), items |-> <<>>]

NoLoc == [ name |-> NoSrc, chunk_end |-> None, file_start_sent_idx |-> 0, prev_sent_idx |-> 0,
           used_fallback |-> FALSE, warned |-> FALSE, iters |-> 0,
           file_start_ms |-> 0, file_end_ms |-> 0,
           last_word_end_ms |-> 0, real_dur |-> 0, attempt_time |-> 0 ]

\* History values: no reference transcript yet, nothing recorded in a ledger.
NoGolden == [set |-> FALSE, items |-> <<>>]
NeverRecorded == [n \in Range(AudioNames) |-> 0]

\* A saved binding that holds nothing (None in _ASR_SUPPRESS_STATE).
Unset == "unset"

\* _ASR_SUPPRESS_STATE at import.
NoSuppress ==
    [ depth |-> 0, old_filters |-> Unset, old_levels |-> Unset,
      old_stdout |-> Unset, old_stderr |-> Unset, devnull |-> Unset ]

\* pending = {} : no file name has a job.
NoPending == [n \in {} |-> 0]

\* The pool before "with ThreadPoolExecutor", and the streams, warning filters
\* and log levels of a process that has not called the ASR yet.
PoolIdle ==
    /\ pending = NoPending
    /\ next_submit_idx = 0
    /\ futures = <<>>
    /\ job_pair = 0
    /\ consumed = <<>>
    /\ ASR_SUPPRESS_STATE = NoSuppress
    /\ sys_stdout = "stdout"
    /\ sys_stderr = "stderr"
    /\ warn_filters = "default"
    /\ log_levels = "WARNING"

\* out_path and out_path.tmp; 0 is no file, v > 0 the complete payload of
\* save number v.
Paths == {"out_path", "out_path.tmp"}
NoFiles == [f \in Paths |-> 0]

\* No save is under way.
NoReplace == [pc |-> "idle", payload |-> 0, i |-> 0, last_exc |-> "none", raised |-> "none"]

SaveIdle == fsys = NoFiles /\ replacing = NoReplace

\* The state of a process that has not started yet, on no transcript.
ProcessIdle ==
    /\ aligner = NewAligner
    /\ meta = NewMeta(sentences)
    /\ disk = NoFile
    /\ cache = NoCache
    /\ existing = NoExisting
    /\ rewound_audio = NoSrc
    /\ running_offset = 0
    /\ idx = 1
    /\ loc = NoLoc
    /\ out = <<>>
    /\ exit_code = None
    /\ restarts = 0
    /\ golden = NoGolden
    /\ crashes = "none"
    /\ edited = FALSE
    /\ recorded = NeverRecorded
    /\ contributed = {}

\* The process of the sequential model: one worker, whose job is part of
\* the step that takes the words of the file.
InitProcess ==
    /\ ProcessIdle
    /\ pc = "start"
    /\ skip_audio_names = {}
    /\ asr_workers_requested = 1
    /\ PoolIdle
    /\ SaveIdle

Init ==
    /\ audios \in AudioLists
    /\ \E sc \in Scenarios : mode = sc.mode /\ sentences = sc.sentences
    /\ asr \in [1..NumAudios -> AsrOutputs]
    /\ \A k \in 3..NumAudios : asr[k] \in AsrTail
    /\ budget = MaxRestarts
    /\ InitProcess

\* Fewer inputs, followed through one more restart.
LedgerOutputs ==
    { [words |-> <<W(1, 0, 400), W(2, 450, 800)>>,   dur |-> 1000],
      [words |-> <<W(3, 100, 600)>>,                 dur |-> 1000],
      [words |-> <<W(1, 0, 400), W(3, 3000, 3500)>>, dur |-> 4000] }

InitLedger ==
    /\ audios = <<"a1.wav", "a2.wav", "a3.wav">>
    /\ mode = "plain" /\ sentences = PlainStream
    /\ asr \in [1..NumAudios -> LedgerOutputs \cup AsrTail]
    /\ \A k \in 1..2 : asr[k] \in LedgerOutputs
    /\ asr[3] \in AsrTail
    /\ budget = MaxRestarts + 1
    /\ InitProcess

\* ---------------------------------------------------------------------
\* main(): start of a run, up to the first save
\* ---------------------------------------------------------------------
\* Sum of the real durations of the ledger's files that are in the audio list.
RECURSIVE OffsetOf(_, _)
OffsetOf(names, i) ==
    IF i > Len(names) THEN 0
    ELSE (IF \E k \in 1..NumAudios : AudioNames[k] = names[i]
          THEN asr[CHOOSE k \in 1..NumAudios : AudioNames[k] = names[i]].dur ELSE 0)
         + OffsetOf(names, i + 1)

\* The resume branch of main() after priming: meta, offset and skip set.
ResumeWith(rw, pr) ==
    LET ex2 == [rw.ex EXCEPT !.meta.processed_audio_totals = pr.totals]
        names == processed_audio_names(pr.processed_audio)
        offset == OffsetOf(names, 1)
        m1 == [ex2.meta EXCEPT !.processed_audio = pr.processed_audio]
        m2 == sync_progress_meta(reset_progress_on_start(m1), pr.aligner.results, sentences, "processing")
        m3 == [m2 EXCEPT !.total_duration_sec = offset,
                         !.audios_done = Len(pr.processed_audio),
                         !.last_audio = IF names = <<>> THEN NoSrc ELSE names[Len(names)]]
    IN  [ existing |-> ex2, rewound |-> rw.name, aligner |-> pr.aligner, meta |-> m3,
          offset |-> offset, skip |-> Range(names) ]

\* After _sanitize_processed_audio and _rewind_last_audio: _prime_from_existing.
ResumeFrom(rw) == ResumeWith(rw, prime_from_existing(rw.ex, sentences, NewAligner))

\* The resume branch of main(): existing, aligner and meta before the save.
Resumed ==
    ResumeFrom(rewind_last_audio(sanitize_processed_audio(
        [loaded |-> TRUE, meta |-> disk.meta, items |-> disk.items])))

\* The else branch: no transcript to resume from.
Fresh ==
    [ existing |-> NoExisting, rewound |-> NoSrc, aligner |-> NewAligner,
      meta |-> reset_progress_on_start(NewMeta(sentences)), offset |-> 0, skip |-> {} ]

\* A final_log that reports a failure in the exit status as well.
final_log_status(success) ==
    [line |-> IF success THEN "true" ELSE "false", code |-> IF success THEN 0 ELSE 1]

\* final_log: the terminal line written to stdout, and the status of os._exit.
final_log(success) == [line |-> IF success THEN "true" ELSE "false", code |-> 0]

\* "if not audios or not sentences": the error save that follows the first save.
InputEmpty == NumAudios = 0 \/ sentences = <<>>

\* An input-empty branch that ends the run without its error save.
ErrorSave_skipped(r, sv) == sv

ErrorSave(r, sv) ==
    save_progress_json(r.aligner.results,
                       sync_progress_meta(sv.meta, r.aligner.results, sentences, "error"),
                       sentences, sv.disk, sv.cache)

StartRun ==
    /\ pc = "start"
    /\ \E r \in {IF disk.exists THEN Resumed ELSE Fresh} :
       \E sv \in {save_progress_json(r.aligner.results, r.meta, sentences, disk, cache)} :
       \E fin \in {IF InputEmpty THEN ErrorSave(r, sv) ELSE sv} :
           /\ existing' = r.existing
           /\ rewound_audio' = r.rewound
           /\ aligner' = r.aligner
           /\ skip_audio_names' = r.skip
           /\ running_offset' = r.offset
           /\ meta' = fin.meta
           /\ disk' = fin.disk
           /\ cache' = fin.cache
    /\ pc' = IF InputEmpty THEN "done" ELSE "file"
    /\ out' = IF InputEmpty THEN Append(out, final_log(FALSE).line) ELSE out
    /\ exit_code' = IF InputEmpty THEN final_log(FALSE).code ELSE exit_code
    /\ idx' = 1
    /\ loc' = NoLoc
    /\ UNCHANGED << audios, mode, sentences, asr, restarts, budget, golden, crashes, edited, recorded, contributed >>
    /\ UNCHANGED << poolvars, savevars >>

\* ---------------------------------------------------------------------
\* main(): the loop over the audio files
\* ---------------------------------------------------------------------
ChunkEnd(i) ==
    IF chunk_ranges # <<>> /\ (i - 1) < Len(chunk_ranges) THEN chunk_ranges[i][2] ELSE None

\* A file of the skip set: only the progress counters move.
SkipFile ==
    /\ pc = "file" /\ idx <= NumAudios
    /\ AudioNames[idx] \in skip_audio_names
    /\ meta' = sync_progress_meta([meta EXCEPT !.audios_done = idx,
                                               !.last_audio = AudioNames[idx],
                                               !.total_duration_sec = running_offset],
                                  aligner.results, sentences, "processing")
    /\ idx' = idx + 1
    /\ loc' = NoLoc
    /\ UNCHANGED << audios, mode, sentences, asr, aligner, disk, cache, existing,
                    rewound_audio, skip_audio_names, running_offset, pc, out, exit_code,
                    restarts, budget, golden, crashes, edited, recorded, contributed >>
    /\ UNCHANGED << poolvars, savevars >>

\* The words of file i shifted to the global timeline and tagged with its name.
Shifted(i, file_start_ms) ==
    [p \in 1..Len(asr[i].words) |->
        [ tok |-> asr[i].words[p].tok,
          start |-> asr[i].words[p].start + file_start_ms,
          end |-> asr[i].words[p].end + file_start_ms,
          src |-> AudioNames[i] ]]

\* A file that is not skipped: take its ASR result, feed the aligner, save.
BeginFile ==
    /\ pc = "file" /\ idx <= NumAudios
    /\ AudioNames[idx] \notin skip_audio_names
    /\ \E shifted \in {Shifted(idx, running_offset)} :
       \E a1 \in {extend_words_and_align(
                     [aligner EXCEPT !.forced_src = AudioNames[idx], !.stop_idx = ChunkEnd(idx)],
                     sentences, shifted, AudioNames[idx])} :
       \E sv \in {save_progress_json(a1.results, meta, sentences, disk, cache)} :
           /\ aligner' = a1
           /\ loc' = [ name |-> AudioNames[idx], chunk_end |-> ChunkEnd(idx),
                       file_start_sent_idx |-> aligner.sent_idx,
                       prev_sent_idx |-> aligner.sent_idx,
                       used_fallback |-> FALSE, warned |-> FALSE, iters |-> 0,
                       file_start_ms |-> running_offset,
                       file_end_ms |-> running_offset + asr[idx].dur,
                       last_word_end_ms |-> IF shifted = <<>> THEN running_offset
                                            ELSE shifted[Len(shifted)].end,
                       real_dur |-> asr[idx].dur, attempt_time |-> 1 ]
           /\ meta' = sv.meta
           /\ disk' = sv.disk
           /\ cache' = sv.cache
           /\ contributed' = IF a1.sent_idx > aligner.sent_idx
                             THEN contributed \cup {AudioNames[idx]} ELSE contributed
    /\ pc' = "loop"
    /\ UNCHANGED << audios, mode, sentences, asr, existing, rewound_audio, skip_audio_names,
                    running_offset, idx, out, exit_code, restarts, budget, golden, crashes,
                    edited, recorded >>
    /\ UNCHANGED << poolvars, savevars >>

\* A failure that records the problem but leaves the status as it is.
fail_alignment_keep_status(a, m, audio_name, audio_idx, problem_text) ==
    LET m1 == [m EXCEPT !.last_audio = IF audio_name # NoSrc THEN audio_name ELSE @,
                        !.problem_audio = IF audio_idx # None THEN ToString(audio_idx) ELSE audio_name,
                        !.unrecognized_text = problem_text]
    IN  sync_progress_meta(m1, a.results, sentences, "")

\* _fail_alignment_and_exit, up to and including its save.
fail_alignment(a, m, audio_name, audio_idx, problem_text) ==
    LET m1 == [m EXCEPT !.last_audio = IF audio_name # NoSrc THEN audio_name ELSE @,
                        !.problem_audio = IF audio_idx # None THEN ToString(audio_idx) ELSE audio_name,
                        !.unrecognized_text = problem_text]
    IN  sync_progress_meta(m1, a.results, sentences, "error")

\* A chunk underflow that ends the run as a failed alignment does.
UnderflowBreak_fatal == "fail"

\* "[warn] chunk underflow ..." and break: the loop of the file is left.
UnderflowBreak == "endfile"

\* An advance that keeps the sentence before sent_idx as the previous one,
\* as the anchor branch does.
AdvancePrev_anchor(a) == Max(0 - 1, a.sent_idx - 1)

\* "prev_sent_idx = aligner.sent_idx" before the extend of an advance.
AdvancePrev(a) == a.sent_idx

\* One iteration of the "while True" recovery loop of a file; rec, apx and
\* adv are what the calls it may make return.
\* warn: the iteration wrote the "[warn] chunk underflow" line.
LoopDecide(a, ce, rec, apx, adv) ==
    LET last_end_ms == last_end_ms_for_file(a.results, loc.name, loc.file_start_ms)
        still_in_this_file == (last_end_ms + MARGIN_MS) < loc.last_word_end_ms
        expected_more_in_chunk == ce # None /\ a.sent_idx < ce
        progressed == a.sent_idx > loc.prev_sent_idx
        apx_ok == ce # None /\ a.sent_idx < ce
        Go(a2, used, prev, next, warn) ==
            [a |-> a2, used |-> used, prev |-> prev, next |-> next, warn |-> warn]
    IN  IF a.sent_idx >= Len(sentences)
        THEN Go(a, loc.used_fallback, loc.prev_sent_idx, "endfile", FALSE)
        ELSE IF ce # None /\ a.sent_idx >= ce
        THEN Go(a, loc.used_fallback, loc.prev_sent_idx, "endfile", FALSE)
        ELSE IF ~progressed
        THEN IF expected_more_in_chunk /\ rec.ok
             THEN Go(rec.a, TRUE, Max(0 - 1, rec.a.sent_idx - 1), "loop", FALSE)
             ELSE IF expected_more_in_chunk /\ apx_ok
             THEN Go(apx, TRUE, loc.prev_sent_idx, "endfile", FALSE)
             ELSE IF expected_more_in_chunk /\ still_in_this_file
             THEN Go(a, loc.used_fallback, loc.prev_sent_idx, "fail", FALSE)
             ELSE Go(a, loc.used_fallback, loc.prev_sent_idx, "endfile",
                     expected_more_in_chunk /\ ~still_in_this_file)
        ELSE IF ~still_in_this_file
        THEN IF expected_more_in_chunk /\ ~loc.used_fallback
             THEN IF rec.ok
                  THEN Go(rec.a, TRUE, Max(0 - 1, rec.a.sent_idx - 1), "loop", FALSE)
                  ELSE Go(apx, TRUE, loc.prev_sent_idx, "endfile", TRUE)
             ELSE IF expected_more_in_chunk
             THEN Go(a, loc.used_fallback, loc.prev_sent_idx, UnderflowBreak, TRUE)
             ELSE Go(a, loc.used_fallback, loc.prev_sent_idx, "endfile", FALSE)
        ELSE Go(adv, loc.used_fallback, AdvancePrev(a), "advance", FALSE)

\* The iteration on the current state.
LoopStep ==
    LoopDecide(aligner, loc.chunk_end,
               recover_with_anchor(aligner, sentences, loc.chunk_end, loc.name,
                                   loc.file_start_ms, loc.file_end_ms),
               approximate_missing_chunk(aligner, sentences, loc.chunk_end, loc.name,
                                         loc.file_start_ms, loc.file_end_ms),
               extend_words_and_align(aligner, sentences, <<>>, NoSrc))

RecoveryLoop ==
    /\ pc = "loop"
    /\ \E g \in {LoopStep} :
       \E sv \in {IF g.next = "fail"
                  THEN save_progress_json(g.a.results,
                           fail_alignment(g.a, meta, loc.name, idx, sentences[g.a.sent_idx + 1].text),
                           sentences, disk, cache)
                  ELSE IF g.next = "advance"
                  THEN save_progress_json(g.a.results, meta, sentences, disk, cache)
                  ELSE [meta |-> meta, disk |-> disk, cache |-> cache]} :
           /\ aligner' = g.a
           /\ loc' = [loc EXCEPT !.used_fallback = g.used, !.prev_sent_idx = g.prev,
                                   !.warned = g.warn, !.iters = Min(@ + 1, MaxIters)]
           /\ meta' = sv.meta
           /\ disk' = sv.disk
           /\ cache' = sv.cache
           /\ pc' = CASE g.next = "fail" -> "done"
                      [] g.next = "advance" -> "loop"
                      [] OTHER -> g.next
           /\ out' = IF g.next = "fail" THEN Append(out, final_log(FALSE).line) ELSE out
           /\ exit_code' = IF g.next = "fail" THEN final_log(FALSE).code ELSE exit_code
           /\ contributed' = IF g.a.sent_idx > loc.file_start_sent_idx
                             THEN contributed \cup {loc.name} ELSE contributed
    /\ UNCHANGED << audios, mode, sentences, asr, existing, rewound_audio, skip_audio_names,
                    running_offset, idx, restarts, budget, golden, crashes, edited, recorded >>
    /\ UNCHANGED << poolvars, savevars >>

\* A ledger that records the file whether or not a sentence was committed.
MadeProgress_or_not(a, file_start_sent_idx) == a.sent_idx >= file_start_sent_idx

\* "if aligner.sent_idx > file_start_sent_idx": the file committed a sentence.
MadeProgress(a, file_start_sent_idx) == a.sent_idx > file_start_sent_idx

\* After the recovery loop: trailing extend, ledger, save.
EndFile ==
    /\ pc = "endfile"
    /\ \E a1 \in {extend_words_and_align(aligner, sentences, <<>>, NoSrc)} :
       \E m1 \in {[meta EXCEPT !.audios_done = idx, !.last_audio = loc.name,
                               !.total_duration_sec = running_offset + loc.real_dur]} :
       \E m2 \in {IF MadeProgress(a1, loc.file_start_sent_idx)
                  THEN record_processed_audio(m1, loc.name, loc.attempt_time) ELSE m1} :
       \E sv \in {save_progress_json(a1.results, m2, sentences, disk, cache)} :
           /\ aligner' = ClearFile(a1)
           /\ running_offset' = running_offset + loc.real_dur
           /\ meta' = sv.meta
           /\ disk' = sv.disk
           /\ cache' = sv.cache
           /\ recorded' = IF Len(m2.processed_audio) > Len(meta.processed_audio)
                          THEN [recorded EXCEPT ![loc.name] =
                                    m2.processed_audio[Len(m2.processed_audio)].total]
                          ELSE recorded
           /\ contributed' = IF a1.sent_idx > loc.file_start_sent_idx
                             THEN contributed \cup {loc.name} ELSE contributed
    /\ idx' = idx + 1
    /\ pc' = "file"
    /\ UNCHANGED << audios, mode, sentences, asr, existing, rewound_audio, skip_audio_names,
                    loc, out, exit_code, restarts, budget, golden, crashes, edited >>
    /\ UNCHANGED << poolvars, savevars >>

\* After the last file: _append_null_and_exit, or the success save.
Finish ==
    /\ pc = "file" /\ idx > NumAudios
    /\ \E a1 \in {IF aligner.sent_idx < Len(sentences)
                  THEN [aligner EXCEPT !.results = Append(@, Res(None, None, NoSrc, "null", NoSrc)),
                                       !.sent_idx = @ + 1]
                  ELSE aligner} :
       \E sv \in {IF aligner.sent_idx < Len(sentences)
                  THEN save_progress_json(a1.results,
                           fail_alignment(a1, meta, meta.last_audio, None,
                                          sentences[aligner.sent_idx + 1].text),
                           sentences, disk, cache)
                  ELSE save_progress_json(aligner.results,
                           sync_progress_meta(meta, aligner.results, sentences, "success"),
                           sentences, disk, cache)} :
           /\ aligner' = a1
           /\ meta' = sv.meta
           /\ disk' = sv.disk
           /\ cache' = sv.cache
    /\ out' = Append(out, final_log(aligner.sent_idx >= Len(sentences)).line)
    /\ exit_code' = final_log(aligner.sent_idx >= Len(sentences)).code
    /\ pc' = "done"
    /\ UNCHANGED << audios, mode, sentences, asr, existing, rewound_audio, skip_audio_names,
                    running_offset, idx, loc, restarts, budget, golden, crashes, edited, recorded, contributed >>
    /\ UNCHANGED << poolvars, savevars >>

\* ---------------------------------------------------------------------
\* main(): "except KeyboardInterrupt" and "except Exception".  Both handlers
\* do the same: when meta, aligner and sentences exist they save with status
\* error, then finish(False).  At pc = "start" the exception is raised either
\* before meta exists (early) or after the aligner was constructed.  The
\* process is gone after os._exit: its locals are released.
\* ---------------------------------------------------------------------
\* A handler that never saves.
HandlerSave_never(early) == [meta |-> meta, disk |-> disk, cache |-> cache]

HandlerSave(early) ==
    IF early THEN [meta |-> meta, disk |-> disk, cache |-> cache]
    ELSE save_progress_json(aligner.results,
                            sync_progress_meta(meta, aligner.results, sentences, "error"),
                            sentences, disk, cache)

Raise ==
    /\ pc \in {"start", "file", "loop", "endfile"}
    /\ golden.set
    /\ \E early \in {pc = "start", FALSE} :
       \E sv \in {HandlerSave(early)} :
           /\ meta' = sv.meta
           /\ disk' = sv.disk
           /\ cache' = sv.cache
    /\ out' = Append(out, final_log(FALSE).line)
    /\ exit_code' = final_log(FALSE).code
    /\ pc' = "done"
    /\ crashes' = "other"
    /\ aligner' = NewAligner
    /\ existing' = NoExisting
    /\ rewound_audio' = NoSrc
    /\ skip_audio_names' = {}
    /\ running_offset' = 0
    /\ idx' = 1
    /\ loc' = NoLoc
    /\ UNCHANGED << audios, mode, sentences, asr, restarts, budget, golden, edited, recorded, contributed >>
    /\ UNCHANGED << poolvars, savevars >>

\* ---------------------------------------------------------------------
\* A new process on the same out_path: after a kill at any point of the
\* run, or after the run ended.  The script may have been edited in
\* between, once: the visible text of one sentence differs, its tokens do
\* not.  The reference run that comes first is left alone.
\* ---------------------------------------------------------------------
\* main() stands between two audio files: one has been completed, another follows.
BetweenFiles == pc = "file" /\ idx > 1 /\ idx <= NumAudios

Edited(sents, e) ==
    [i \in 1..Len(sents) |-> IF i = e THEN [sents[i] EXCEPT !.text = @ + 10] ELSE sents[i]]

Restart ==
    /\ pc # "start"
    /\ golden.set
    /\ restarts < budget
    /\ restarts' = restarts + 1
    /\ \E e \in 0..Len(sentences) :
          /\ e # 0 => (~sentences[e].placeholder /\ ~edited)
          /\ sentences' = Edited(sentences, e)
          /\ edited' = (edited \/ e # 0)
          /\ crashes' = IF crashes # "other" /\ e = 0 /\ BetweenFiles
                         THEN "between" ELSE "other"
    /\ aligner' = NewAligner
    /\ meta' = NewMeta(sentences')
    /\ cache' = NoCache
    /\ existing' = NoExisting
    /\ rewound_audio' = NoSrc
    /\ skip_audio_names' = {}
    /\ running_offset' = 0
    /\ idx' = 1
    /\ loc' = NoLoc
    /\ pc' = "start"
    /\ out' = <<>>
    /\ exit_code' = None
    /\ UNCHANGED << audios, mode, asr, disk, budget, golden, recorded, contributed >>
    /\ UNCHANGED << poolvars, savevars >>

\* The transcript of a completed, never interrupted run is kept aside as the
\* reference, out_path is removed and the script is invoked again on the
\* same inputs.
Rerun ==
    /\ pc = "done" /\ restarts = 0 /\ crashes = "none" /\ ~golden.set
    /\ disk.exists
    /\ golden' = [set |-> TRUE, items |-> disk.items]
    /\ disk' = NoFile
    /\ recorded' = NeverRecorded
    /\ contributed' = {}
    /\ aligner' = NewAligner
    /\ meta' = NewMeta(sentences)
    /\ cache' = NoCache
    /\ existing' = NoExisting
    /\ rewound_audio' = NoSrc
    /\ skip_audio_names' = {}
    /\ running_offset' = 0
    /\ idx' = 1
    /\ loc' = NoLoc
    /\ pc' = "start"
    /\ out' = <<>>
    /\ exit_code' = None
    /\ UNCHANGED << audios, mode, sentences, asr, restarts, budget, crashes, edited >>
    /\ UNCHANGED << poolvars, savevars >>

Next ==
    \/ StartRun
    \/ SkipFile
    \/ BeginFile
    \/ RecoveryLoop
    \/ EndFile
    \/ Finish
    \/ Raise
    \/ Restart
    \/ Rerun

Spec == Init /\ [][Next]_vars

SpecLedger == InitLedger /\ [][Next]_vars

\* ---------------------------------------------------------------------
\* main(): the thread pool of the ASR jobs, and _suppress_asr_noise.
\* The work main() does on a file between taking its words and the next
\* iteration (align, recover, save) is one step here.
\* ---------------------------------------------------------------------
\* --asrWorkers values followed.
MaxWorkers == 2

\* transcribe_words on cpu: attempts = [small, base].
Attempts == 2

\* scan_audio lists the VOICE folders of both video roots, sorted by file
\* name: three names, or the same name found under both roots and one more.
PoolAudioLists == { <<"a1.wav", "a2.wav", "a3.wav">>, <<"a1.wav", "a1.wav", "a2.wav">> }

\* main(): what is left to the pool and to the streams by the other variables.
alignvars == << audios, mode, sentences, asr, aligner, meta, disk, cache, existing,
                rewound_audio, skip_audio_names, running_offset, loc, restarts, budget,
                golden, crashes, edited, recorded, contributed >>

jobs_pending_total == Cardinality({k \in 1..NumAudios : AudioNames[k] \notin skip_audio_names})

worker_slots ==
    Max(1, Min(asr_workers_requested, IF jobs_pending_total = 0 THEN 1 ELSE jobs_pending_total))

\* executor.submit(_run_asr_job, candidate, prompt): a job on audio item k.
NewJob(k) == [item |-> k, st |-> "queued", tries |-> 0]

\* "if candidate.path.name in skip_audio_names: continue"
Skipped(name) == name \in skip_audio_names

\* _fill_pending on p = [pending, next_submit_idx, futures].
RECURSIVE fill_pending(_)
fill_pending(p) ==
    IF Cardinality(DOMAIN p.pending) < worker_slots /\ p.next_submit_idx < NumAudios
    THEN IF Skipped(AudioNames[p.next_submit_idx + 1])
         THEN fill_pending([p EXCEPT !.next_submit_idx = @ + 1])
         ELSE fill_pending(
                [ pending |-> [n \in DOMAIN p.pending \cup {AudioNames[p.next_submit_idx + 1]} |->
                                  IF n = AudioNames[p.next_submit_idx + 1]
                                  THEN Len(p.futures) + 1 ELSE p.pending[n]],
                  next_submit_idx |-> p.next_submit_idx + 1,
                  futures |-> Append(p.futures, NewJob(p.next_submit_idx + 1)) ])
    ELSE p

PoolNow == [pending |-> pending, next_submit_idx |-> next_submit_idx, futures |-> futures]

\* The streams, filters and levels of the process with the suppression state.
Globals ==
    [ state |-> ASR_SUPPRESS_STATE, stdout |-> sys_stdout, stderr |-> sys_stderr,
      filters |-> warn_filters, levels |-> log_levels ]

SetGlobals(g) ==
    /\ ASR_SUPPRESS_STATE' = g.state
    /\ sys_stdout' = g.stdout
    /\ sys_stderr' = g.stderr
    /\ warn_filters' = g.filters
    /\ log_levels' = g.levels

\* An entry that saves the current bindings whatever the depth is.
suppress_enter_saving(g, can_open) ==
    [ state |-> [ depth |-> g.state.depth + 1,
                  old_filters |-> g.filters, old_levels |-> g.levels,
                  old_stdout |-> g.stdout, old_stderr |-> g.stderr,
                  devnull |-> IF can_open THEN "open" ELSE g.state.devnull ],
      filters |-> "ignore", levels |-> "ERROR",
      stdout |-> IF can_open THEN "devnull" ELSE g.stdout,
      stderr |-> IF can_open THEN "devnull" ELSE g.stderr ]

\* _suppress_asr_noise, the block before the yield, under _ASR_SUPPRESS_LOCK;
\* can_open: open(os.devnull) succeeds.
suppress_enter(g, can_open) ==
    IF g.state.depth = 0
    THEN [ state |-> [ depth |-> 1,
                       old_filters |-> g.filters, old_levels |-> g.levels,
                       old_stdout |-> g.stdout, old_stderr |-> g.stderr,
                       devnull |-> IF g.state.devnull = Unset /\ can_open
                                   THEN "open" ELSE g.state.devnull ],
           filters |-> "ignore", levels |-> "ERROR",
           stdout |-> IF g.state.devnull # Unset \/ can_open THEN "devnull" ELSE g.stdout,
           stderr |-> IF g.state.devnull # Unset \/ can_open THEN "devnull" ELSE g.stderr ]
    ELSE [g EXCEPT !.state.depth = @ + 1]

\* An exit that lowers the depth and restores nothing.
suppress_exit_bound(g) == [g EXCEPT !.state.depth = @ - 1]

\* _suppress_asr_noise, the finally block, under _ASR_SUPPRESS_LOCK.
suppress_exit(g) ==
    IF g.state.depth - 1 = 0
    THEN [ state |-> [g.state EXCEPT !.depth = 0, !.devnull = Unset],
           filters |-> g.state.old_filters, levels |-> g.state.old_levels,
           stdout |-> IF g.state.old_stdout # Unset THEN g.state.old_stdout ELSE g.stdout,
           stderr |-> IF g.state.old_stderr # Unset THEN g.state.old_stderr ELSE g.stderr ]
    ELSE [g EXCEPT !.state.depth = @ - 1]

\* The first _fill_pending(), before the loop over the files.
FillFirst ==
    /\ pc = "pool"
    /\ \E p \in {fill_pending(PoolNow)} :
          /\ pending' = p.pending
          /\ next_submit_idx' = p.next_submit_idx
          /\ futures' = p.futures
    /\ idx' = 1
    /\ pc' = "top"
    /\ UNCHANGED << alignvars, out, exit_code, asr_workers_requested, job_pair, consumed,
                    ASR_SUPPRESS_STATE, sys_stdout, sys_stderr, warn_filters, log_levels,
                    savevars >>

\* The head of an iteration: _fill_pending(), then either the file is in the
\* skip set, or its job is popped from pending (submitted now if it has none).
LoopTop ==
    /\ pc = "top" /\ idx <= NumAudios
    /\ \E p \in {fill_pending(PoolNow)} :
          /\ next_submit_idx' = p.next_submit_idx
          /\ IF AudioNames[idx] \in skip_audio_names
             THEN /\ pending' = p.pending
                  /\ futures' = p.futures
                  /\ job_pair' = job_pair
                  /\ idx' = idx + 1
                  /\ pc' = "top"
             ELSE /\ pending' = [n \in DOMAIN p.pending \ {AudioNames[idx]} |-> p.pending[n]]
                  /\ IF AudioNames[idx] \in DOMAIN p.pending
                     THEN /\ job_pair' = p.pending[AudioNames[idx]]
                          /\ futures' = p.futures
                     ELSE /\ job_pair' = Len(p.futures) + 1
                          /\ futures' = Append(p.futures, NewJob(idx))
                  /\ idx' = idx
                  /\ pc' = "wait"
    /\ UNCHANGED << alignvars, out, exit_code, asr_workers_requested, consumed,
                    ASR_SUPPRESS_STATE, sys_stdout, sys_stderr, warn_filters, log_levels,
                    savevars >>

\* job_pair[1].result() returns: the words of the job are taken.
Consume ==
    /\ pc = "wait"
    /\ futures[job_pair].st = "done"
    /\ futures' = [futures EXCEPT ![job_pair].st = "taken"]
    /\ consumed' = Append(consumed, [idx |-> idx, item |-> futures[job_pair].item])
    /\ pc' = "align"
    /\ UNCHANGED << alignvars, idx, out, exit_code, asr_workers_requested, pending,
                    next_submit_idx, job_pair, ASR_SUPPRESS_STATE, sys_stdout, sys_stderr,
                    warn_filters, log_levels, savevars >>

\* The rest of the iteration: the words are aligned, the file is saved.
ProcessFile ==
    /\ pc = "align"
    /\ idx' = idx + 1
    /\ pc' = "top"
    /\ UNCHANGED << alignvars, out, exit_code, poolvars, savevars >>

\* The loop is over: the with block is left, the executor shuts down.
LeavePool ==
    /\ pc = "top" /\ idx > NumAudios
    /\ pc' = "shutdown"
    /\ UNCHANGED << alignvars, idx, out, exit_code, poolvars, savevars >>

\* KeyboardInterrupt in the main thread: the with block is left by the
\* exception, the executor shuts down before the handler runs.
Interrupt ==
    /\ pc \in {"top", "wait", "align"}
    /\ pc' = "unwind"
    /\ UNCHANGED << alignvars, idx, out, exit_code, poolvars, savevars >>

\* A job is finished for the executor.
Finished(j) == futures[j].st \in {"done", "taken"}

\* shutdown(wait=True) has returned; main() goes on to final_log, which
\* writes to what sys.stdout and sys.stderr are bound to.
PoolFinish ==
    /\ pc \in {"shutdown", "unwind"}
    /\ \A j \in 1..Len(futures) : Finished(j)
    /\ out' = IF sys_stdout = "devnull" /\ sys_stderr = "devnull" THEN out
              ELSE Append(out, final_log(pc = "shutdown").line)
    /\ exit_code' = final_log(pc = "shutdown").code
    /\ pc' = "done"
    /\ UNCHANGED << alignvars, idx, poolvars, savevars >>

\* A job is in a worker thread.
Running(j) == futures[j].st \in {"load", "retry", "mid", "align"}

\* A worker thread takes the oldest queued job; _run_asr_job calls
\* transcribe_words, _try_whisperx enters its first suppression scope.
JobStart(j) ==
    /\ pc # "done"
    /\ futures[j].st = "queued"
    /\ \A i \in 1..(j - 1) : futures[i].st # "queued"
    /\ Cardinality({i \in 1..Len(futures) : Running(i)}) < worker_slots
    /\ \E can_open \in BOOLEAN : SetGlobals(suppress_enter(Globals, can_open))
    /\ futures' = [futures EXCEPT ![j].st = "load", ![j].tries = 1]
    /\ UNCHANGED << alignvars, idx, pc, out, exit_code, asr_workers_requested, pending,
                    next_submit_idx, job_pair, consumed, savevars >>

\* The first scope is left: load and transcribe returned, or raised (then
\* transcribe_words tries its next attempt, or gives up with no words).
JobLoadExit(j) ==
    /\ pc # "done"
    /\ futures[j].st = "load"
    /\ SetGlobals(suppress_exit(Globals))
    /\ \E ok \in BOOLEAN :
          futures' = [futures EXCEPT ![j].st = IF ok THEN "mid"
                                               ELSE IF futures[j].tries < Attempts THEN "retry"
                                               ELSE "done"]
    /\ UNCHANGED << alignvars, idx, pc, out, exit_code, asr_workers_requested, pending,
                    next_submit_idx, job_pair, consumed, savevars >>

\* The next attempt of transcribe_words enters the first scope again.
JobRetry(j) ==
    /\ pc # "done"
    /\ futures[j].st = "retry"
    /\ \E can_open \in BOOLEAN : SetGlobals(suppress_enter(Globals, can_open))
    /\ futures' = [futures EXCEPT ![j].st = "load", ![j].tries = @ + 1]
    /\ UNCHANGED << alignvars, idx, pc, out, exit_code, asr_workers_requested, pending,
                    next_submit_idx, job_pair, consumed, savevars >>

\* _try_whisperx enters its second scope (load_align_model, align).
JobAlign(j) ==
    /\ pc # "done"
    /\ futures[j].st = "mid"
    /\ \E can_open \in BOOLEAN : SetGlobals(suppress_enter(Globals, can_open))
    /\ futures' = [futures EXCEPT ![j].st = "align"]
    /\ UNCHANGED << alignvars, idx, pc, out, exit_code, asr_workers_requested, pending,
                    next_submit_idx, job_pair, consumed, savevars >>

\* The second scope is left and _run_asr_job returns its word list.
JobAlignExit(j) ==
    /\ pc # "done"
    /\ futures[j].st = "align"
    /\ SetGlobals(suppress_exit(Globals))
    /\ futures' = [futures EXCEPT ![j].st = "done"]
    /\ UNCHANGED << alignvars, idx, pc, out, exit_code, asr_workers_requested, pending,
                    next_submit_idx, job_pair, consumed, savevars >>

\* A step of a worker thread.
Worker ==
    \E j \in 1..Len(futures) :
        \/ JobStart(j)
        \/ JobLoadExit(j)
        \/ JobRetry(j)
        \/ JobAlign(j)
        \/ JobAlignExit(j)

\* The pool is created after the resume: some files are in the skip set.
InitPool ==
    /\ audios \in PoolAudioLists
    /\ mode = "plain" /\ sentences = PlainStream
    /\ asr = [k \in 1..NumAudios |-> [words |-> <<>>, dur |-> 1000]]
    /\ budget = 0
    /\ ProcessIdle
    /\ pc = "pool"
    /\ skip_audio_names \in SUBSET Range(AudioNames)
    /\ asr_workers_requested \in 1..MaxWorkers
    /\ PoolIdle
    /\ SaveIdle

NextPool ==
    \/ FillFirst
    \/ LoopTop
    \/ Consume
    \/ ProcessFile
    \/ LeavePool
    \/ Interrupt
    \/ PoolFinish
    \/ Worker

SpecPool == InitPool /\ [][NextPool]_vars

\* ---------------------------------------------------------------------
\* save_progress_json from the write of out_path.tmp on, and
\* _atomic_replace_with_retry.  The payloads are numbered; -1 is a file
\* that was opened for writing and does not hold its payload yet.
\* ---------------------------------------------------------------------
\* Saves followed.
MaxSaves == 2

\* _atomic_replace_with_retry(src, dst, retries=40, ...)
retries == 40

Truncated == 0 - 1

\* What one os.replace can do: succeed, or raise PermissionError, an OSError
\* with winerror 5 or 32, or another OSError.
OsOutcomes == {"ok", "PermissionError", "winerror5", "winerror32", "OSError"}

\* A retry on every error.
Retryable_any(exc) == exc # "ok"

\* "except PermissionError" and "winerror in (5, 32)": the errors that are retried.
Retryable(exc) == exc \in {"PermissionError", "winerror5", "winerror32"}

\* out_path.with_suffix(out_path.suffix + ".tmp")
TmpOf(path) == "out_path.tmp"

\* What the other variables are left as by a save.
unsaved == << alignvars, idx, pc, out, exit_code, poolvars >>

\* save_progress_json is called with the next payload: tmp.open("w").
SaveOpen ==
    /\ replacing.pc \in {"idle", "returned", "raised"}
    /\ replacing.payload < MaxSaves
    /\ fsys' = [fsys EXCEPT ![TmpOf("out_path")] = Truncated]
    /\ replacing' = [pc |-> "write", payload |-> replacing.payload + 1, i |-> 0,
                     last_exc |-> "none", raised |-> "none"]
    /\ UNCHANGED unsaved

\* f.write(text) and the end of the with block, or an OSError of the write.
SaveWrite ==
    /\ replacing.pc = "write"
    /\ \E ok \in BOOLEAN :
          IF ok
          THEN /\ fsys' = [fsys EXCEPT ![TmpOf("out_path")] = replacing.payload]
               /\ replacing' = [replacing EXCEPT !.pc = "replace"]
          ELSE /\ fsys' = fsys
               /\ replacing' = [replacing EXCEPT !.pc = "raised", !.raised = "OSError"]
    /\ UNCHANGED unsaved

\* os.replace(src, dst) on the files.
os_replace(f, src, dst) == [f EXCEPT ![dst] = f[src], ![src] = 0]

\* One iteration of "for i in range(max(1, retries))", with the raise that
\* follows the loop when it was the last one.
ReplaceAttempt ==
    /\ replacing.pc = "replace"
    /\ replacing.i < Max(1, retries)
    /\ \E exc \in OsOutcomes :
          IF exc = "ok"
          THEN /\ fsys' = os_replace(fsys, TmpOf("out_path"), "out_path")
               /\ replacing' = [replacing EXCEPT !.pc = "returned", !.i = @ + 1]
          ELSE /\ fsys' = fsys
               /\ IF Retryable(exc)
                  THEN replacing' =
                          [replacing EXCEPT !.i = @ + 1, !.last_exc = exc,
                              !.pc = IF replacing.i + 1 < Max(1, retries) THEN "replace" ELSE "raised",
                              !.raised = IF replacing.i + 1 < Max(1, retries) THEN "none" ELSE exc]
                  ELSE replacing' = [replacing EXCEPT !.i = @ + 1, !.pc = "raised", !.raised = exc]
    /\ UNCHANGED unsaved

InitSave ==
    /\ audios = <<>>
    /\ mode = "plain" /\ sentences = <<>>
    /\ asr = <<>>
    /\ budget = 0
    /\ InitProcess

NextSave ==
    \/ SaveOpen
    \/ SaveWrite
    \/ ReplaceAttempt

SpecSave == InitSave /\ [][NextSave]_vars

\* ---------------------------------------------------------------------
\* The recovery paths of one file: a run whose first audio file has the
\* whole stream as its chunk, over a grid of ASR outputs for that file.
\* ---------------------------------------------------------------------
\* Three sentences in one chunk, and a chunk longer than the lookahead.
ChunkStreamC ==
    << Sent(1, 10, <<1>>, FALSE, 0), Sent(2, 20, <<2>>, FALSE, 0),
       Sent(3, 10, <<3>>, FALSE, 0) >>
LongChunk == 11
ChunkStreamLong == [i \in 1..LongChunk |-> Sent(i, 10, <<i>>, FALSE, 0)]

\* Word times within a file of 1000 ms, and the tokens the words carry.
TimeGrid == {0, 300, 600, 900, 950, 1000}
FirstTokens == {1, 2}
LaterTokens == {2, 3, 9, 10}

\* Outputs of transcribe_words: one word, or two words in time order.
GridOutputs ==
    { [words |-> <<W(t, s, e)>>, dur |-> 1000] :
        t \in FirstTokens \cup LaterTokens,
        s \in TimeGrid, e \in {x \in TimeGrid : x > 0} }
    \cup
    { [words |-> <<W(t1, s1, e1), W(t2, s2, e2)>>, dur |-> 1000] :
        t1 \in FirstTokens, t2 \in LaterTokens,
        s1 \in TimeGrid, e1 \in TimeGrid, s2 \in TimeGrid, e2 \in TimeGrid }

\* Words start before they end, follow each other, and differ in token.
WellTimed(o) ==
    /\ \A p \in 1..Len(o.words) : o.words[p].start < o.words[p].end
    /\ \A p \in 1..(Len(o.words) - 1) :
          /\ o.words[p].end <= o.words[p + 1].start
          /\ o.words[p].tok < o.words[p + 1].tok

InitAnchor ==
    /\ audios = <<"a1.wav", "a2.wav">>
    /\ mode = "chunks" /\ sentences \in {ChunkStreamC, ChunkStreamLong}
    /\ \E o \in {x \in GridOutputs : WellTimed(x)} : \E t \in AsrTail : asr = <<o, t>>
    /\ budget = 0
    /\ InitProcess

NextAnchor ==
    \/ StartRun
    \/ BeginFile
    \/ RecoveryLoop
    \/ EndFile
    \/ Finish

SpecAnchor == InitAnchor /\ [][NextAnchor]_vars

\* ---------------------------------------------------------------------
\* Reprocessing of a source: scan_audio lists the VOICE folders of both
\* video roots sorted by file name, so a name can come twice in a row.
\* ---------------------------------------------------------------------
InitReplace ==
    /\ audios = <<"a1.wav", "a2.wav", "a2.wav">>
    /\ \E sc \in Scenarios : mode = sc.mode /\ sentences = sc.sentences
    /\ \E o1 \in AsrOutputs : \E o2 \in AsrOutputs : \E o3 \in AsrOutputs :
          asr = <<o1, o2, o3>>
    /\ budget = 0
    /\ InitProcess

NextReplace ==
    \/ StartRun
    \/ BeginFile
    \/ RecoveryLoop
    \/ EndFile
    \/ Finish

SpecReplace == InitReplace /\ [][NextReplace]_vars

\* ---------------------------------------------------------------------
\* Sentence construction of the structured mode: main() builds the stream
\* from the text blocks, maps the orders, coalesces short sentences,
\* assigns the suborders and rebuilds the chunk ranges.
\* ---------------------------------------------------------------------
MaxBlocks == 2

\* What split_into_sentences gives for a piece of a text block: its tokens,
\* len(text.strip()) and part, the order of the text part in which
\* _find_token_subsequence finds the tokens (None on a miss).
Piece(tokens, chars, part) == [tokens |-> tokens, chars |-> chars, part |-> part]
Pieces ==
    { Piece(<<>>, 3, None), Piece(<<1>>, 4, 1), Piece(<<2>>, 4, 2),
      Piece(<<3>>, 4, None), Piece(<<4, 5>>, 9, 1) }

\* A text block: a blank one has no piece at all.
TextBlocks == {<<>>} \cup [1..1 -> Pieces] \cup [1..2 -> Pieces]

\* --minIndexChars / --minIndexTokens
MinIndex == { <<0, 0>>, <<5, 0>>, <<0, 2>> }

\* build_sentence_stream([chunk]): a sentence for every piece with tokens;
\* _build_manga_sentences_from_texts stamps meta = {"chunk": chunk_idx}.
RECURSIVE build_sentence_stream(_, _)
build_sentence_stream(chunk, chunk_idx) ==
    IF chunk = <<>> THEN <<>>
    ELSE (IF chunk[1].tokens # <<>>
          THEN << [tokens |-> chunk[1].tokens, chars |-> chunk[1].chars,
                   part |-> chunk[1].part, chunk |-> chunk_idx,
                   order |-> None, suborder |-> None] >>
          ELSE <<>>)
         \o build_sentence_stream(Tail(chunk), chunk_idx)

\* chunk_texts: the blocks that are not blank.
RECURSIVE ChunkTexts(_)
ChunkTexts(text_blocks) ==
    IF text_blocks = <<>> THEN <<>>
    ELSE (IF text_blocks[1] = <<>> THEN <<>> ELSE << text_blocks[1] >>)
         \o ChunkTexts(Tail(text_blocks))

\* _build_manga_sentences_from_texts: the loop over the chunks, from
\* chunk_idx on, with the sentences and the ranges built so far.
RECURSIVE BuildChunks(_, _, _, _)
BuildChunks(chunk_texts, chunk_idx, sents, ranges) ==
    IF chunk_idx >= Len(chunk_texts) THEN [sentences |-> sents, chunk_ranges |-> ranges]
    ELSE LET part_sents == build_sentence_stream(chunk_texts[chunk_idx + 1], chunk_idx)
         IN  BuildChunks(chunk_texts, chunk_idx + 1, sents \o part_sents,
                         Append(ranges, <<Len(sents), Len(sents) + Len(part_sents)>>))

build_manga_sentences_from_texts(text_blocks) ==
    BuildChunks(ChunkTexts(text_blocks), 0, <<>>, <<>>)

\* _coalesce_short_sentences_with_meta
too_short(s, min_chars, min_tokens) ==
    \/ min_chars # 0 /\ s.chars < min_chars
    \/ min_tokens # 0 /\ Len(s.tokens) < min_tokens

same_bucket(a, b) == a.chunk = b.chunk /\ a.order = b.order

merge_sentences_with_meta(left, right, keep) ==
    [keep EXCEPT !.tokens = left.tokens \o right.tokens,
                 !.chars = left.chars + 1 + right.chars]

DelAt(items, i) == SubSeq(items, 1, i - 1) \o SubSeq(items, i + 1, Len(items))

RECURSIVE CoalesceFrom(_, _, _, _)
CoalesceFrom(items, i, min_chars, min_tokens) ==
    IF i >= Len(items) THEN items
    ELSE IF ~too_short(items[i + 1], min_chars, min_tokens)
         THEN CoalesceFrom(items, i + 1, min_chars, min_tokens)
    ELSE IF i > 0 /\ same_bucket(items[i], items[i + 1])
         THEN CoalesceFrom(
                  DelAt([items EXCEPT ![i] =
                             merge_sentences_with_meta(items[i], items[i + 1], items[i])],
                        i + 1),
                  i, min_chars, min_tokens)
    ELSE IF i + 1 < Len(items) /\ same_bucket(items[i + 1], items[i + 2])
         THEN CoalesceFrom(
                  DelAt([items EXCEPT ![i + 2] =
                             merge_sentences_with_meta(items[i + 1], items[i + 2], items[i + 2])],
                        i + 1),
                  i, min_chars, min_tokens)
    ELSE CoalesceFrom(items, i + 1, min_chars, min_tokens)

coalesce_short_sentences_with_meta(items, min_chars, min_tokens) ==
    IF min_chars <= 0 /\ min_tokens <= 0 THEN items
    ELSE CoalesceFrom(items, 0, min_chars, min_tokens)

\* _assign_suborders: counters is the dict order -> next suborder.
\* A dict that never remembers the count of an order.
CounterGet_forgetful(counters, order) == 0

CounterGet(counters, order) ==
    IF order \in DOMAIN counters THEN counters[order] ELSE 0

RECURSIVE SubordersFrom(_, _, _)
SubordersFrom(sents, i, counters) ==
    IF i > Len(sents) THEN sents
    ELSE LET order == sents[i].order IN
         IF order = None
         THEN SubordersFrom([sents EXCEPT ![i].suborder = None], i + 1, counters)
         ELSE LET sub == CounterGet(counters, order) IN
              SubordersFrom([sents EXCEPT ![i].suborder = sub], i + 1,
                            [o \in DOMAIN counters \cup {order} |->
                                 IF o = order THEN sub + 1 ELSE counters[o]])

assign_suborders(sents) == SubordersFrom(sents, 1, <<>>)

\* The locals of main() while it builds the stream.
BuildLoc(text_blocks, mi) ==
    [ text_blocks |-> text_blocks, chunk_texts |-> <<>>, chunk_ranges |-> <<>>,
      manga_min_chars |-> Max(0, mi[1]), manga_min_tokens |-> Max(0, mi[2]) ]

buildrest == << audios, mode, asr, aligner, meta, disk, cache, existing, rewound_audio,
                skip_audio_names, running_offset, idx, out, exit_code, restarts,
                budget, golden, crashes, edited, recorded, contributed, poolvars, savevars >>

\* sentences, chunk_ranges, chunk_texts = _build_manga_sentences_from_texts(...)
BuildMangaSentences ==
    /\ pc = "texts"
    /\ LET b == build_manga_sentences_from_texts(loc.text_blocks) IN
         /\ sentences' = b.sentences
         /\ loc' = [loc EXCEPT !.chunk_texts = ChunkTexts(loc.text_blocks),
                               !.chunk_ranges = b.chunk_ranges]
    /\ pc' = "orders"
    /\ UNCHANGED buildrest

\* _assign_orders_to_sentences(sentences, parts)
AssignOrders ==
    /\ pc = "orders"
    /\ sentences' = [i \in 1..Len(sentences) |->
                        [sentences[i] EXCEPT !.order = sentences[i].part]]
    /\ pc' = "coalesce"
    /\ UNCHANGED << loc, buildrest >>

\* _coalesce_short_sentences_with_meta(sentences, manga_min_chars, manga_min_tokens)
CoalesceShort ==
    /\ pc = "coalesce"
    /\ sentences' = coalesce_short_sentences_with_meta(
                        sentences, loc.manga_min_chars, loc.manga_min_tokens)
    /\ pc' = "suborders"
    /\ UNCHANGED << loc, buildrest >>

\* _assign_suborders(sentences)
AssignSuborders ==
    /\ pc = "suborders"
    /\ sentences' = assign_suborders(sentences)
    /\ pc' = "ranges"
    /\ UNCHANGED << loc, buildrest >>

\* chunk_ranges = _rebuild_chunk_ranges(sentences)
RebuildChunkRanges ==
    /\ pc = "ranges"
    /\ loc' = [loc EXCEPT !.chunk_ranges = rebuild_chunk_ranges(sentences)]
    /\ pc' = "built"
    /\ UNCHANGED << sentences, buildrest >>

\* Before the loop over the files: no audio taken, nothing aligned or saved.
BuildIdle ==
    /\ audios = <<>>
    /\ sentences = <<>>
    /\ asr = <<>>
    /\ budget = 0
    /\ aligner = NewAligner
    /\ meta = NewMeta(<<>>)
    /\ disk = NoFile
    /\ cache = NoCache
    /\ existing = NoExisting
    /\ rewound_audio = NoSrc
    /\ running_offset = 0
    /\ idx = 1
    /\ out = <<>>
    /\ exit_code = None
    /\ restarts = 0
    /\ golden = NoGolden
    /\ crashes = "none"
    /\ edited = FALSE
    /\ recorded = NeverRecorded
    /\ contributed = {}
    /\ skip_audio_names = {}
    /\ asr_workers_requested = 1
    /\ PoolIdle
    /\ SaveIdle

InitBuild ==
    /\ BuildIdle
    /\ mode = "chunks"
    /\ pc = "texts"
    /\ \E n \in 1..MaxBlocks : \E tb \in [1..n -> TextBlocks] : \E mi \in MinIndex :
          loc = BuildLoc(tb, mi)

NextBuild ==
    \/ BuildMangaSentences
    \/ AssignOrders
    \/ CoalesceShort
    \/ AssignSuborders
    \/ RebuildChunkRanges

SpecBuild == InitBuild /\ [][NextBuild]_vars

\* ---------------------------------------------------------------------
\* TextPartsManager: the attachment of short text parts to a carrier.
\* Part k of the Python lists is element k + 1 of the sequences; the
\* indices kept in attached_to and in the child lists are 0-based.
\* ---------------------------------------------------------------------
MaxParts == 4
MIN_SENT_CHARS == 50

\* len(text.strip()) of a part: empty, short, or at least min_chars.
PartLens == {0, 3, 60}

\* The chunk of each part: strings and tuples give None, dicts their
\* "chunk" value.
PartChunks(n) ==
    { c \in [1..n -> {None, 0, 1}] :
          \/ \A k \in 1..n : c[k] = None
          \/ \A k \in 1..n : c[k] # None /\ (k > 1 => c[k - 1] <= c[k]) }

\* TextPartsManager.__init__ before _initial_merge.
NewManager(lens, chunks, min_chars) ==
    [ lens |-> lens, chunk |-> chunks, min_chars |-> Max(0, min_chars),
      prefix_children |-> [k \in 1..Len(lens) |-> <<>>],
      suffix_children |-> [k \in 1..Len(lens) |-> <<>>],
      attached_to |-> [k \in 1..Len(lens) |-> None],
      merged_into |-> [k \in 1..Len(lens) |-> None],
      attach_mode |-> [k \in 1..Len(lens) |-> Unset] ]

\* _attach_suffix
attach_suffix(m, child_idx, target_idx) ==
    [m EXCEPT !.suffix_children[target_idx + 1] = Append(@, child_idx),
              !.attached_to[child_idx + 1] = target_idx,
              !.attach_mode[child_idx + 1] = "suffix",
              !.merged_into[child_idx + 1] = target_idx]

\* _attach_prefix with front = True
attach_prefix_front(m, child_idx, target_idx) ==
    [m EXCEPT !.prefix_children[target_idx + 1] = <<child_idx>> \o @,
              !.attached_to[child_idx + 1] = target_idx,
              !.attach_mode[child_idx + 1] = "prefix",
              !.merged_into[child_idx + 1] = target_idx]

\* _initial_merge: the outer loop from idx on, and the inner loop that
\* grows the carrier.
RECURSIVE MergeOuter(_, _)
RECURSIVE MergeInner(_, _, _, _)
MergeOuter(m, i) ==
    IF i >= Len(m.lens) THEN m
    ELSE IF m.attached_to[i + 1] # None THEN MergeOuter(m, i + 1)
    ELSE MergeInner(m, i, m.lens[i + 1], i + 1)

MergeInner(m, carrier, total_len, i) ==
    IF i >= Len(m.lens) THEN MergeOuter(m, i)
    ELSE IF m.chunk[i + 1] # m.chunk[carrier + 1] THEN MergeOuter(m, i)
    ELSE IF total_len < m.min_chars \/ m.lens[i + 1] < m.min_chars
         THEN MergeInner(attach_suffix(m, i, carrier), carrier, total_len + m.lens[i + 1], i + 1)
    ELSE MergeOuter(m, i)

initial_merge(m) == MergeOuter(m, 0)

\* _find_next_carrier: None when no part after idx is a carrier.
find_next_carrier(m, i) ==
    LET C == {j \in (i + 1)..(Len(m.lens) - 1) : m.attached_to[j + 1] = None}
    IN  IF C = {} THEN None ELSE CHOOSE j \in C : \A k \in C : j <= k

\* _compose_text: the parts joined into the text, those with no text left out.
compose_text(m, i) ==
    SelectSeq(m.prefix_children[i + 1] \o <<i>> \o m.suffix_children[i + 1],
              LAMBDA c : m.lens[c + 1] > 0)

\* _make_real_sentence / _make_placeholder_sentence
make_real_sentence(m, i) ==
    [ placeholder |-> FALSE, text_part_index |-> i, text |-> compose_text(m, i),
      prefix_children |-> m.prefix_children[i + 1],
      suffix_children |-> m.suffix_children[i + 1],
      attached_to |-> None, chunk |-> m.chunk[i + 1] ]

make_placeholder_sentence(m, i) ==
    [ placeholder |-> TRUE, text_part_index |-> i, text |-> <<>>,
      prefix_children |-> <<>>, suffix_children |-> <<>>,
      attached_to |-> m.attached_to[i + 1], chunk |-> m.chunk[i + 1] ]

part_sentence(m, i) ==
    IF m.attached_to[i + 1] = None THEN make_real_sentence(m, i)
    ELSE make_placeholder_sentence(m, i)

\* build_sentences
build_sentences(m) == [k \in 1..Len(m.lens) |-> part_sentence(m, k - 1)]

\* refresh_sentence
refresh_sentence(m, i, sents) ==
    IF i < 0 \/ i >= Len(m.lens) THEN sents
    ELSE [sents EXCEPT ![i + 1] = part_sentence(m, i)]

has_suffix_attachment(m, i) ==
    0 <= i /\ i < Len(m.lens) /\ m.suffix_children[i + 1] # <<>>

\* shift_suffix_to_next: the manager and the sentences afterwards.  Without
\* a next carrier the popped child is put back.
shift_suffix_to_next(m, i, sents) ==
    IF ~has_suffix_attachment(m, i) THEN [m |-> m, sentences |-> sents]
    ELSE LET child_idx == Head(m.suffix_children[i + 1])
             m1 == [m EXCEPT !.suffix_children[i + 1] = Tail(@),
                             !.attached_to[child_idx + 1] = None,
                             !.attach_mode[child_idx + 1] = Unset,
                             !.merged_into[child_idx + 1] = None]
             target == find_next_carrier(m1, child_idx)
         IN  IF target = None
             THEN [m |-> [m1 EXCEPT !.suffix_children[i + 1] = <<child_idx>> \o @,
                                    !.attached_to[child_idx + 1] = i,
                                    !.attach_mode[child_idx + 1] = "suffix",
                                    !.merged_into[child_idx + 1] = i],
                   sentences |-> sents]
             ELSE LET m2 == attach_prefix_front(m1, child_idx, target)
                  IN  [m |-> m2,
                       sentences |->
                           refresh_sentence(m2, child_idx,
                               refresh_sentence(m2, target,
                                   refresh_sentence(m2, i, sents)))]

\* text_parts_manager = TextPartsManager(parts, MIN_SENT_CHARS);
\* sentences = text_parts_manager.build_sentences()
Construct ==
    /\ pc = "parts"
    /\ \E m \in {initial_merge(NewManager(loc.lens, loc.chunk, MIN_SENT_CHARS))} :
          /\ loc' = m
          /\ sentences' = build_sentences(m)
    /\ pc' = "managed"
    /\ UNCHANGED buildrest

\* A call of shift_suffix_to_next(idx, sentences).
Shift(i) ==
    /\ pc = "managed"
    /\ i < Len(loc.lens)
    /\ \E r \in {shift_suffix_to_next(loc, i, sentences)} :
          /\ loc' = r.m
          /\ sentences' = r.sentences
    /\ UNCHANGED << pc, buildrest >>

ShiftSuffixToNext == \E i \in 0..(MaxParts - 1) : Shift(i)

InitParts ==
    /\ BuildIdle
    /\ mode = "parts"
    /\ pc = "parts"
    /\ \E n \in 1..MaxParts : \E lens \in [1..n -> PartLens] : \E chunks \in PartChunks(n) :
          loc = [lens |-> lens, chunk |-> chunks]

NextParts ==
    \/ Construct
    \/ ShiftSuffixToNext

SpecParts == InitParts /\ [][NextParts]_vars

\* ---------------------------------------------------------------------
\* Properties
\* ---------------------------------------------------------------------
Timed(r) == r.start_ms # None /\ r.end_ms # None

\* This process has written the transcript: disk.items is what it wrote last.
Written == cache.set /\ disk.exists

\* C1: after every commit, for every sentence whose result and whose
\* predecessor's result both have times, start_ms[i] >= end_ms[i-1] + 1 and
\* end_ms[i] >= start_ms[i].
C1_StrictMonotonic ==
    \A i \in 1..Len(aligner.results) :
        Timed(aligner.results[i]) =>
            /\ aligner.results[i].end_ms >= aligner.results[i].start_ms
            /\ (i > 1 /\ Timed(aligner.results[i - 1])) =>
                   aligner.results[i].start_ms >= aligner.results[i - 1].end_ms + 1

\* C2: in every written transcript, for every adjacent pair of items that
\* both have times, end_ms[i] >= start_ms[i] and start_ms[i] >= end_ms[i-1].
C2_OutputMonotonic ==
    \A i \in 1..Len(disk.items) :
        Timed(disk.items[i]) =>
            /\ disk.items[i].end_ms >= disk.items[i].start_ms
            /\ (i > 1 /\ Timed(disk.items[i - 1])) =>
                   disk.items[i].start_ms >= disk.items[i - 1].end_ms

\* C3: every sentence committed by a match (a normal match or the anchor of
\* an anchor recovery) spans at least MIN_MATCH_MS, in the aligner's results
\* and in the transcript written from them.
C3_MinSpan ==
    \A i \in 1..Len(aligner.results) :
        aligner.results[i].kind \in {"match", "anchor"} =>
            /\ aligner.results[i].end_ms - aligner.results[i].start_ms >= MIN_MATCH_MS
            /\ (Written /\ i <= Len(disk.items) /\ Timed(disk.items[i])) =>
                   disk.items[i].end_ms - disk.items[i].start_ms >= MIN_MATCH_MS

\* C4: every transcript written by the running process has exactly one item
\* per sentence of the stream, in stream order with idx = position, and null
\* start_ms/end_ms for the sentences the aligner has not aligned (a
\* placeholder inherits its times, see C7).
C4_OneItemPerSentence ==
    Written =>
        /\ Len(disk.items) = Len(sentences)
        /\ \A i \in 1..Len(disk.items) :
              /\ disk.items[i].idx = i - 1
              /\ disk.items[i].text = sentences[i].text
              /\ (i > Len(aligner.results) /\ ~sentences[i].placeholder) =>
                    disk.items[i].start_ms = None /\ disk.items[i].end_ms = None

\* The indices with times are a prefix of the sequence.
TimedPrefix(seq) ==
    \A i \in 1..Len(seq) : \A j \in 1..Len(seq) :
        (i < j /\ seq[j].start_ms # None) => seq[i].start_ms # None

\* C5: in every state after a commit and in every written transcript, no
\* sentence with times comes after a sentence without times.
C5_CommittedPrefix ==
    /\ TimedPrefix(aligner.results)
    /\ TimedPrefix(disk.items)

\* The audio file being processed (or just processed) by the loop of main().
CurrentFile == CHOOSE k \in 1..NumAudios : AudioNames[k] = loc.name

InFile == pc \in {"loop", "endfile", "file"} /\ loc.name # NoSrc

\* C6: while audio file k is processed and chunk_ranges[k] exists, no
\* operation (drive loop, anchor recovery, approximation, trailing extend)
\* moves sent_idx past chunk_ranges[k].end_idx.
C6_ChunkBoundary ==
    (InFile /\ CurrentFile <= Len(chunk_ranges)) =>
        aligner.sent_idx <= Max(chunk_ranges[CurrentFile][2], loc.file_start_sent_idx)

\* C6 witness: file k has been fed to the aligner, sent_idx stands at the end
\* of chunk k, and a word of the next sentence is still unconsumed.
C6_Witness ==
    /\ InFile /\ CurrentFile <= Len(chunk_ranges)
    /\ aligner.sent_idx = chunk_ranges[CurrentFile][2]
    /\ aligner.sent_idx < Len(sentences)
    /\ aligner.sent_idx > loc.file_start_sent_idx
    /\ \E w \in (aligner.cursor + 1)..Len(aligner.words) :
          aligner.words[w].tok \in Range(sentences[aligner.sent_idx + 1].tokens)

\* C7: in every written transcript a placeholder item has start_ms = end_ms
\* = the nearest preceding non-null end_ms (both null if there is none) and
\* the audio_file of that preceding item.
C7_PlaceholderTiming ==
    disk.exists =>
        \A i \in 1..Len(disk.items) :
            sentences[i].placeholder =>
                LET P == {j \in 1..(i - 1) : disk.items[j].end_ms # None}
                    p == CHOOSE j \in P : \A m \in P : m <= j
                IN  IF P = {}
                    THEN disk.items[i].start_ms = None /\ disk.items[i].end_ms = None
                    ELSE /\ disk.items[i].start_ms = disk.items[p].end_ms
                         /\ disk.items[i].end_ms = disk.items[p].end_ms
                         /\ disk.items[i].audio_file = disk.items[p].audio_file

\* C7 witness: a resumed run has written a transcript in which a placeholder
\* carries inherited times.
C7_Witness ==
    /\ Written /\ restarts > 0
    /\ \E i \in 1..Len(disk.items) :
          sentences[i].placeholder /\ disk.items[i].start_ms # None

\* C8: for every matched sentence the recorded audio_file is the source with
\* the largest overlap with [start_ms, end_ms] among the words of the window.
C8_SourceAttribution ==
    \A i \in 1..Len(aligner.results) :
        aligner.results[i].kind = "match" =>
            aligner.results[i].audio_file = aligner.results[i].dom

\* Length of the longest prefix of items whose text equals the sentence text
\* and whose start_ms is non-null.
ItemOk(items, sents, i) == items[i].text = sents[i].text /\ items[i].start_ms # None

PrefixLen(items, sents) ==
    LET top == Min(Len(items), Len(sents))
    IN  CHOOSE n \in 0..top :
            /\ \A i \in 1..n : ItemOk(items, sents, i)
            /\ n < top => ~ItemOk(items, sents, n + 1)

\* The state right after the resume branch of main().
JustResumed == pc = "file" /\ idx = 1 /\ existing.loaded

\* C9: after priming, aligner.results holds exactly the items of the longest
\* prefix of the existing items with equal text and non-null start_ms,
\* sent_idx is that prefix length and last_end_ms the end_ms of the last
\* replayed item (-1 if none).
C9_ResumeReplay ==
    JustResumed =>
        LET n == PrefixLen(existing.items, sentences)
        IN  /\ Len(aligner.results) = n
            /\ aligner.sent_idx = n
            /\ \A i \in 1..n :
                  /\ aligner.results[i].start_ms = existing.items[i].start_ms
                  /\ aligner.results[i].end_ms = existing.items[i].end_ms
                  /\ aligner.results[i].audio_file = existing.items[i].audio_file
            /\ aligner.last_end_ms = IF n = 0 THEN 0 - 1 ELSE existing.items[n].end_ms

\* C9 witness: the replay loaded at least one item and stopped at an item
\* that has times but whose text differs from the sentence.
C9_Witness ==
    /\ JustResumed
    /\ LET n == PrefixLen(existing.items, sentences)
       IN  /\ n >= 1 /\ n < Len(existing.items)
           /\ existing.items[n + 1].start_ms # None
           /\ existing.items[n + 1].text # sentences[n + 1].text

\* C10 (its state part): right after a resume that rewound a file, the file
\* is neither in the ledger nor in the skip set, and no item is attributed
\* to it any more, in the loaded items and in the transcript the resumed run
\* has written.
C10_RewindClears ==
    (JustResumed /\ rewound_audio # NoSrc) =>
        /\ rewound_audio \notin Range(processed_audio_names(meta.processed_audio))
        /\ rewound_audio \notin skip_audio_names
        /\ \A i \in 1..Len(existing.items) : existing.items[i].audio_file # rewound_audio
        /\ \A i \in 1..Len(disk.items) : disk.items[i].audio_file # rewound_audio

\* Sum of the real durations of the audio files before file k (1-based).
RECURSIVE DurationsBefore(_)
DurationsBefore(k) == IF k <= 1 THEN 0 ELSE asr[k - 1].dur + DurationsBefore(k - 1)

\* C12: while audio file k is processed, file_start_ms is the sum of the
\* real durations of the files before k and file_end_ms is file_start_ms
\* plus the duration of k, in an uninterrupted run and after a resume.
C12_GlobalTimeline ==
    pc \in {"loop", "endfile"} =>
        /\ loc.file_start_ms = DurationsBefore(idx)
        /\ loc.file_end_ms = loc.file_start_ms + asr[idx].dur

\* What the claim compares of a transcript: start_ms, end_ms and audio_file
\* of every item, in order.
TimesOf(items) ==
    [i \in 1..Len(items) |-> << items[i].start_ms, items[i].end_ms, items[i].audio_file >>]

\* C11: when a run that was stopped only between two audio files, and
\* started again on unchanged inputs, has ended, the items of its transcript
\* (start_ms, end_ms, audio_file per sentence) equal those of the
\* uninterrupted run on the same inputs.
C11_ResumeEquivalence ==
    (pc = "done" /\ golden.set /\ crashes = "between") =>
        TimesOf(disk.items) = TimesOf(golden.items)

\* The step of EndFile that appends an entry to meta.processed_audio.
Recording ==
    /\ pc = "endfile" /\ pc' = "file"
    /\ Len(meta'.processed_audio) = Len(meta.processed_audio) + 1

\* C13: whenever a file is recorded in meta.processed_audio, the cumulative
\* of the new entry is the cumulative of the file's previous ledger entry (0
\* if it was never recorded, earlier processes on the same transcript
\* included) plus the new attempt, and every entry of the ledger has
\* cumulative >= attempt.
C13_LedgerAccumulation ==
    [][ /\ Recording =>
              LET e == meta'.processed_audio[Len(meta'.processed_audio)]
              IN  /\ e.name = loc.name
                  /\ e.last = loc.attempt_time
                  /\ e.total = recorded[loc.name] + e.last
        /\ \A i \in 1..Len(meta'.processed_audio) :
              meta'.processed_audio[i].total >= meta'.processed_audio[i].last ]_vars

\* What _sanitize_processed_audio makes of the transcript a new process finds.
Sanitized ==
    sanitize_processed_audio([loaded |-> TRUE, meta |-> disk.meta, items |-> disk.items])

\* The audio file of the last item that has a non-null end_ms (NoSrc if none).
LastTimedAudio(items) ==
    LET timed == {i \in 1..Len(items) : items[i].end_ms # None}
    IN  IF timed = {} THEN NoSrc
        ELSE items[CHOOSE i \in timed : \A j \in timed : j <= i].audio_file

\* C14: after the sanitization step of a resume, the ledger is empty when no
\* item has times; otherwise its last entry names the audio file of the last
\* item that has a non-null end_ms (so no entry follows that file).
C14_LedgerSanitized ==
    (pc = "start" /\ disk.exists) =>
        LET led == Sanitized.meta.processed_audio
            la == LastTimedAudio(disk.items)
        IN  IF la = NoSrc THEN led = <<>>
            ELSE led # <<>> /\ led[Len(led)].name = la

\* C15: at the end of a file's processing the file is appended to
\* meta.processed_audio if and only if sent_idx advanced while it was
\* processed, and its duration is added to running_offset either way; the
\* ledger and the skip set only ever name files that committed a sentence.
C15_LedgerOnProgress ==
    [][ /\ (pc = "endfile" /\ pc' = "file") =>
              /\ IF aligner'.sent_idx > loc.file_start_sent_idx
                 THEN /\ Len(meta'.processed_audio) = Len(meta.processed_audio) + 1
                      /\ meta'.processed_audio[Len(meta'.processed_audio)].name = loc.name
                      /\ SubSeq(meta'.processed_audio, 1, Len(meta.processed_audio))
                            = meta.processed_audio
                 ELSE meta'.processed_audio = meta.processed_audio
              /\ running_offset' = running_offset + asr[idx].dur
        /\ \A n \in Range(processed_audio_names(meta'.processed_audio)) \cup skip_audio_names' :
              n \in contributed' ]_vars

\* C15 witness: a resumed run has completed a file during which sent_idx did
\* not advance: the file is not in the ledger, which names another file, it
\* is not in the skip set, and running_offset has moved past it.
C15_Witness ==
    /\ pc = "file" /\ loc.name # NoSrc /\ restarts > 0
    /\ aligner.sent_idx = loc.file_start_sent_idx
    /\ loc.name \notin Range(processed_audio_names(meta.processed_audio))
    /\ loc.name \notin skip_audio_names
    /\ meta.processed_audio # <<>>
    /\ running_offset = loc.file_start_ms + loc.real_dur

\* The process has ended if and only if final_log has written its line.
ExitState ==
    IF pc = "done"
    THEN Len(out) = 1 /\ out[1] \in {"true", "false"} /\ exit_code = 0
    ELSE out = <<>> /\ exit_code = None

NoWork ==
    /\ pc \in {"start", "done"}
    /\ \A i \in 1..Len(aligner.results) : ~Timed(aligner.results[i])
    /\ disk.exists => \A i \in 1..Len(disk.items) : ~Timed(disk.items[i])

\* C19: with an empty audio list or an empty sentence stream the run never
\* enters the file loop and never gives a sentence times, and the start of
\* the run ends it with the line false after a save with status error.
C19_InputEmpty ==
    [][InputEmpty =>
          /\ NoWork /\ NoWork'
          /\ StartRun => /\ pc' = "done"
                          /\ out' = <<"false">>
                          /\ cache'.set /\ disk'.exists
                          /\ disk'.meta.status = "error"]_vars

\* C19 witness: a run on empty input has ended in its input-empty branch.
C19_Witness ==
    /\ InputEmpty /\ pc = "done" /\ crashes = "none"
    /\ Written /\ disk.meta.status = "error" /\ out = <<"false">>

\* The step has saved the progress store with status error.
SavedError == cache'.set /\ disk'.exists /\ disk'.meta.status = "error"

\* C20 as stated: every interrupt or exception, raised at any point of the
\* run, is followed by a save with status error before the line false.
C20_SaveOnAnyException == [][Raise => (SavedError /\ out' = <<"false">>)]_vars

\* C20: an interrupt or exception raised in the file loop is followed by a
\* save with status error before the line false; one raised at the start of
\* the run is followed by that save or, when meta, the aligner and the
\* sentences do not exist yet, by no save at all; the line is false in
\* every case.
C20_SaveOnException ==
    [][Raise =>
          /\ out' = <<"false">>
          /\ pc # "start" => SavedError
          /\ pc = "start" => (SavedError \/ UNCHANGED << disk, cache >>)]_vars

\* C20 witness: the first run on a fresh out_path was interrupted in the file
\* loop; the store holds the committed times and the status error.
C20_Witness ==
    /\ pc = "done" /\ crashes = "other" /\ restarts = 0
    /\ out = <<"false">> /\ Written /\ disk.meta.status = "error"
    /\ \E i \in 1..Len(disk.items) : Timed(disk.items[i])

\* C21: the result taken in iteration k of the file loop is the result of
\* the job that ran on audio file k, so the words of file k reach the aligner
\* only when the files before it are done, in whatever order the jobs
\* complete; and no step of a worker thread changes the aligner.
C21_SequentialConsumption ==
    [][ /\ consumed' # consumed =>
              /\ consumed'[Len(consumed')].idx = idx
              /\ consumed'[Len(consumed')].item = idx
        /\ Worker => UNCHANGED aligner ]_vars

\* The jobs submitted for audio item k.
JobsOf(k) == {j \in 1..Len(futures) : futures[j].item = k}

\* The jobs submitted whose result has not been taken.
Unconsumed == {j \in 1..Len(futures) : futures[j].st # "taken"}

\* C22: the jobs submitted and not yet consumed never outnumber the pool
\* size; no file has more than one job, a file of the skip set has none and
\* its iteration leaves the aligner alone, and when the loop is over every
\* file outside the skip set has had exactly one job.
C22_BoundedPool ==
    [][ /\ Cardinality(Unconsumed') <= worker_slots
        /\ \A k \in 1..NumAudios :
              /\ Cardinality(JobsOf(k)') <= 1
              /\ AudioNames[k] \in skip_audio_names => JobsOf(k)' = {}
              /\ (pc' = "shutdown" /\ AudioNames[k] \notin skip_audio_names)
                     => Cardinality(JobsOf(k)') = 1
        /\ (LoopTop /\ AudioNames[idx] \in skip_audio_names) => UNCHANGED aligner ]_vars

\* What _suppress_asr_noise saves on entry.
SavedOf(st) == << st.old_filters, st.old_levels, st.old_stdout, st.old_stderr >>

\* The saved state changes only on the depth 0 -> 1 transition, the depth is
\* never negative, and at depth 0 the streams, the filters and the levels are
\* those the process had before the first entry.
SavedAndRestored ==
    /\ ASR_SUPPRESS_STATE'.depth >= 0
    /\ SavedOf(ASR_SUPPRESS_STATE') # SavedOf(ASR_SUPPRESS_STATE)
          => (ASR_SUPPRESS_STATE.depth = 0 /\ ASR_SUPPRESS_STATE'.depth = 1)
    /\ ASR_SUPPRESS_STATE'.depth = 0
          => /\ sys_stdout' = "stdout" /\ sys_stderr' = "stderr"
             /\ warn_filters' = "default" /\ log_levels' = "WARNING"

\* C23 as stated: for every interleaving of entries and exits, the saved
\* state is captured only on the depth 0 -> 1 transition, stdout and stderr are
\* silenced while depth > 0, depth is never negative, and at depth 0 the
\* bindings, levels and filters are those before the first entry.
C23_SilencedWhileInside ==
    [][ /\ SavedAndRestored
        /\ ASR_SUPPRESS_STATE'.depth > 0
              => (sys_stdout' = "devnull" /\ sys_stderr' = "devnull") ]_vars

\* C23: as above, but while depth > 0 stdout and stderr are bound to the null
\* device only if it could be opened on the depth 0 -> 1 transition; if not,
\* they keep the bindings they had.
C23_ReentrantSuppression ==
    [][ /\ SavedAndRestored
        /\ ASR_SUPPRESS_STATE'.depth > 0
              => IF ASR_SUPPRESS_STATE'.devnull # Unset
                 THEN sys_stdout' = "devnull" /\ sys_stderr' = "devnull"
                 ELSE sys_stdout' = "stdout" /\ sys_stderr' = "stderr" ]_vars

\* C23 witness: two worker threads are inside the scope at once, the streams
\* are silenced and the saved bindings are those of the first entry.
C23_Witness ==
    /\ ASR_SUPPRESS_STATE.depth >= 2
    /\ ASR_SUPPRESS_STATE.devnull = "open"
    /\ sys_stdout = "devnull" /\ sys_stderr = "devnull"
    /\ ASR_SUPPRESS_STATE.old_stdout = "stdout" /\ ASR_SUPPRESS_STATE.old_levels = "WARNING"

\* C24: the target holds a complete payload at every moment, the old one or
\* the new one, and the file written is out_path.tmp; os.replace is attempted
\* at most 40 times; the call returns at the first success; it goes on after
\* a PermissionError or a winerror 5 or 32 only, raises the last of these
\* after the 40th failure, and raises any other error at once.
C24_AtomicReplace ==
    [][ /\ fsys'["out_path"] \in {fsys["out_path"], replacing.payload}
        /\ fsys'["out_path"] # Truncated
        /\ replacing'.i <= 40
        /\ (replacing.pc = "replace" /\ replacing'.i = replacing.i + 1) =>
              /\ fsys'["out_path"] = replacing.payload <=> replacing'.pc = "returned"
              /\ replacing'.pc = "replace" =>
                    replacing'.last_exc \in {"PermissionError", "winerror5", "winerror32"}
              /\ replacing'.pc = "raised" =>
                    \/ replacing'.raised = "OSError"
                    \/ /\ replacing'.i = 40
                       /\ replacing'.raised = replacing'.last_exc
                       /\ replacing'.raised \in {"PermissionError", "winerror5", "winerror32"} ]_vars

\* C24 witness: the second save has failed 40 times with sharing errors and
\* raised the last one; the target still holds the first payload.
C24_Witness ==
    /\ replacing.pc = "raised" /\ replacing.i = 40 /\ replacing.payload = 2
    /\ replacing.raised = "winerror32"
    /\ fsys["out_path"] = 1 /\ fsys["out_path.tmp"] = 2

\* ---------------------------------------------------------------------
\* Recovery paths of a file
\* ---------------------------------------------------------------------
\* The results a step appended to aligner.results.
Appended == SubSeq(aligner'.results, Len(aligner.results) + 1, Len(aligner'.results))

\* Each span starts where the one before it ends.
Contiguous(spans) == \A i \in 1..(Len(spans) - 1) : spans[i + 1].start_ms = spans[i].end_ms

\* The iteration of the recovery loop in which _approximate_missing_chunk
\* returned True.
Approximated ==
    /\ RecoveryLoop
    /\ Appended # <<>>
    /\ \A i \in 1..Len(Appended) : Appended[i].kind = "approx"

\* C25: after the weighted approximation has run for file k, every sentence
\* from the sent_idx before it up to the end of the chunk has a result
\* attributed to file k, sent_idx is the end of the chunk, the spans are
\* contiguous, and the last of them ends exactly at file_end_ms.
C25_WeightedApproximation ==
    [][ Approximated =>
          /\ Len(Appended) = loc.chunk_end - aligner.sent_idx
          /\ \A i \in 1..Len(Appended) : Appended[i].audio_file = loc.name
          /\ aligner'.sent_idx = loc.chunk_end
          /\ Contiguous(Appended)
          /\ Appended[Len(Appended)].end_ms = loc.file_end_ms ]_vars

\* C25 witness: two sentences of the chunk of the second file have just
\* been approximated.
C25_Witness ==
    /\ pc = "endfile" /\ idx = 2 /\ loc.used_fallback
    /\ aligner.sent_idx = loc.chunk_end
    /\ Len(aligner.results) >= 2
    /\ aligner.results[Len(aligner.results)].kind = "approx"
    /\ aligner.results[Len(aligner.results) - 1].kind = "approx"
    /\ aligner.results[Len(aligner.results)].end_ms = loc.file_end_ms

\* The file being processed has no ASR words and sentences of its chunk
\* were still to be committed when it began.
AsrEmptyFile ==
    /\ pc \in {"loop", "endfile"}
    /\ asr[idx].words = <<>>
    /\ loc.chunk_end # None
    /\ loc.file_start_sent_idx < loc.chunk_end

\* C26: when ASR returns no words for a file whose chunk holds sentences,
\* all sentences of the chunk get approximate spans attributed to that
\* file, the first starts at file_start_ms and the last ends exactly at
\* file_end_ms.
C26_AsrEmptyApproximation ==
    (AsrEmptyFile /\ pc = "endfile") =>
        /\ aligner.sent_idx = loc.chunk_end
        /\ Len(aligner.results) >= loc.chunk_end
        /\ \A i \in (loc.file_start_sent_idx + 1)..loc.chunk_end :
              /\ aligner.results[i].kind = "approx"
              /\ aligner.results[i].audio_file = loc.name
        /\ aligner.results[loc.file_start_sent_idx + 1].start_ms = loc.file_start_ms
        /\ aligner.results[loc.chunk_end].end_ms = loc.file_end_ms

\* The iteration of the recovery loop in which _recover_with_anchor
\* returned True: the gap sentences and then the anchor were appended.
Anchored ==
    /\ RecoveryLoop
    /\ Appended # <<>>
    /\ Appended[Len(Appended)].kind = "anchor"

\* The interpolated results of the gap, and the anchor's.
GapOf(appended) == SubSeq(appended, 1, Len(appended) - 1)
AnchorOf(appended) == appended[Len(appended)]

\* C27: on a successful anchor recovery the gap sentences from sent_idx up
\* to the anchor get contiguous spans, the first starting at
\* max(last_end_ms + 1, file_start_ms), the last ending at the start_ms
\* committed for the anchor, each at least MIN_MATCH_MS long.
C27_GapInterpolation ==
    [][ Anchored =>
          /\ Len(GapOf(Appended)) = aligner'.sent_idx - 1 - aligner.sent_idx
          /\ Len(GapOf(Appended)) >= 1
          /\ Contiguous(GapOf(Appended))
          /\ GapOf(Appended)[1].start_ms = Max(aligner.last_end_ms + 1, loc.file_start_ms)
          /\ GapOf(Appended)[Len(GapOf(Appended))].end_ms = AnchorOf(Appended).start_ms
          /\ \A i \in 1..Len(GapOf(Appended)) :
                GapOf(Appended)[i].end_ms - GapOf(Appended)[i].start_ms >= MIN_MATCH_MS ]_vars

\* The 0-based index of the anchor sentence a step committed.
AnchorIdx == aligner'.sent_idx - 1

\* C28: the anchor committed by anchor recovery is the first sentence after
\* sent_idx, within the lookahead and below the chunk end, that the
\* aggressive matcher hits; its start_ms is not before the end_ms of the
\* result appended just before it, its end_ms is not before its start_ms
\* and not after file_end_ms.
C28_AnchorCommit ==
    [][ Anchored =>
          /\ AnchorIdx > aligner.sent_idx
          /\ AnchorIdx <= aligner.sent_idx + RECOVER_LOOKAHEAD_SENTENCES
          /\ AnchorIdx < loc.chunk_end
          /\ try_match_sentence_core(aligner, sentences[AnchorIdx + 1], TRUE).hit
          /\ \A j \in (aligner.sent_idx + 1)..(AnchorIdx - 1) :
                ~try_match_sentence_core(aligner, sentences[j + 1], TRUE).hit
          /\ AnchorOf(Appended).start_ms >= Appended[Len(Appended) - 1].end_ms
          /\ AnchorOf(Appended).end_ms >= AnchorOf(Appended).start_ms
          /\ AnchorOf(Appended).end_ms <= loc.file_end_ms ]_vars

\* "still_in_this_file" of the recovery loop, on the current state.
StillInThisFile ==
    (last_end_ms_for_file(aligner.results, loc.name, loc.file_start_ms) + MARGIN_MS)
        < loc.last_word_end_ms

\* The sentences of the chunk of the current file are not all committed.
ChunkShort(a) ==
    a.sent_idx < Len(sentences) /\ loc.chunk_end # None /\ a.sent_idx < loc.chunk_end

\* An iteration of the recovery loop that finds the audio of the file
\* exhausted while the chunk is short.
Underflow == RecoveryLoop /\ ChunkShort(aligner) /\ ~StillInThisFile

\* Anchor recovery was tried and, without an anchor, the approximation.
RecoveryAttempted ==
    \/ Anchored
    \/ Approximated /\ ~FindAnchor(aligner, sentences, loc.chunk_end).found

\* The underflow is not fatal: the run goes on, no terminal line, no error status.
NonFatal ==
    /\ pc' \in {"loop", "endfile"}
    /\ out' = out /\ exit_code' = exit_code
    /\ meta'.status # "error" /\ disk'.meta.status # "error"
    /\ (ChunkShort(aligner') /\ pc' = "endfile") => loc'.warned

\* The file whose chunk stayed short is closed and the next file is taken.
NextFileAfterShort ==
    (EndFile /\ loc.warned /\ ChunkShort(aligner)) =>
        /\ pc' = "file" /\ idx' = idx + 1
        /\ out' = out /\ exit_code' = exit_code
        /\ meta'.status # "error" /\ disk'.meta.status # "error"

\* C29: when the audio of file k is exhausted (last_end_ms + 1500 >=
\* last_word_end_ms) before the sentences of chunk k are consumed, anchor
\* recovery and then approximation are attempted; if the chunk is still
\* short a warning is logged and the run continues with file k+1 without
\* status error and without the line false.
C29_UnderflowAlwaysRecovers ==
    [][ /\ Underflow => (RecoveryAttempted /\ NonFatal)
        /\ NextFileAfterShort ]_vars

\* C29 (amended): as above, except that neither recovery is attempted when
\* a recovery was already used for file k and sent_idx has advanced since
\* the previous iteration.
C29_ChunkUnderflow ==
    [][ /\ Underflow =>
              /\ NonFatal
              /\ RecoveryAttempted <=>
                    ~(loc.used_fallback /\ aligner.sent_idx > loc.prev_sent_idx)
        /\ NextFileAfterShort ]_vars

\* C29 witness: the first file is closed with its chunk short after a
\* warning, and the second file is next.
C29_Witness ==
    /\ pc = "file" /\ idx = 2
    /\ loc.warned /\ loc.used_fallback
    /\ ChunkShort(aligner)
    /\ meta.status = "processing" /\ out = <<>>

\* The steps that call extend_words_and_align: the start of a file, the
\* "[advance]" iteration of the recovery loop, the end of a file.
Drove ==
    \/ BeginFile
    \/ RecoveryLoop /\ pc' = "loop" /\ ~Anchored
    \/ EndFile

\* The drive loop has nothing more to commit on the aligner a: the stream
\* or the chunk is exhausted, or the next sentence does not match.
DriveStopped(a, stop_idx) ==
    \/ a.sent_idx = Len(sentences)
    \/ stop_idx # None /\ a.sent_idx = stop_idx
    \/ /\ a.sent_idx < Len(sentences)
       /\ ~sentences[a.sent_idx + 1].placeholder
       /\ ~try_match_sentence_core(a, sentences[a.sent_idx + 1], FALSE).hit

\* The last of the results that is not a placeholder, if there is one.
LastTimed(results) ==
    LET timed == {i \in 1..Len(results) : results[i].kind # "placeholder"}
    IN  IF timed = {} THEN 0 ELSE CHOOSE i \in timed : \A j \in timed : j <= i

\* C30: extend_words_and_align commits sentence after sentence until a
\* match fails, sent_idx = len(sentences) or sent_idx = stop_idx; a
\* placeholder sentence is committed as (None, None, None), advances
\* sent_idx by one and leaves cursor, last_start_ms, last_end_ms and the
\* word stream as they are.
C30_DriveLoop ==
    [][ Drove =>
          /\ aligner'.sent_idx = aligner.sent_idx + Len(Appended)
          /\ DriveStopped(aligner', loc'.chunk_end)
          /\ \A i \in 1..Len(Appended) :
                /\ Appended[i].kind \in {"match", "placeholder"}
                /\ Appended[i].kind = "placeholder" <=>
                      sentences[aligner.sent_idx + i].placeholder
                /\ Appended[i].kind = "placeholder" =>
                      /\ Appended[i].start_ms = None
                      /\ Appended[i].end_ms = None
                      /\ Appended[i].audio_file = NoSrc
          /\ IF LastTimed(Appended) = 0
             THEN /\ aligner'.last_start_ms = aligner.last_start_ms
                  /\ aligner'.last_end_ms = aligner.last_end_ms
                  /\ ~BeginFile => aligner'.cursor = aligner.cursor
             ELSE /\ aligner'.last_start_ms = Appended[LastTimed(Appended)].start_ms
                  /\ aligner'.last_end_ms = Appended[LastTimed(Appended)].end_ms
          /\ ~BeginFile => aligner'.words = aligner.words ]_vars

\* C30 witness: the placeholder has been committed after the first sentence
\* and the drive loop has stopped at the sentence after it, which does not
\* match.
C30_Witness ==
    /\ pc = "loop" /\ mode = "parts"
    /\ aligner.sent_idx = 2
    /\ Len(aligner.results) = 2
    /\ aligner.results[2].kind = "placeholder"
    /\ aligner.results[2].start_ms = None
    /\ aligner.last_end_ms = aligner.results[1].end_ms
    /\ ~try_match_sentence_core(aligner, sentences[3], FALSE).hit

\* The words of the stream that were not appended for src.
OtherWords(src) == SelectSeq(aligner.words, LAMBDA w : w.src # src)

\* The aligner as BeginFile hands it to the drive loop when the words of
\* src are replaced: the cursor is the first remaining word that ends at
\* or after last_end_ms + 1, not past the remaining words.
Replaced(src, new_words) ==
    [aligner EXCEPT !.words = OtherWords(src) \o new_words,
                    !.cursor = IF Len(OtherWords(src)) # Len(aligner.words)
                               THEN Min(Len(OtherWords(src)),
                                        ptr_for_time(OtherWords(src), aligner.last_end_ms + 1))
                               ELSE @,
                    !.forced_src = src,
                    !.stop_idx = ChunkEnd(idx)]

\* C31: after extend_words_and_align(new_words, src) with a src that has
\* words in the stream, none of its earlier words remains, the words of the
\* other sources keep their order and tags, new_words are the tail, the
\* results committed before are unchanged and the drive loop has run from
\* the cursor re-derived as the first remaining word whose end is at least
\* last_end_ms + 1; a call with src = None removes nothing.
C31_WordReplacement ==
    [][ /\ BeginFile =>
              /\ aligner'.words = OtherWords(AudioNames[idx]) \o Shifted(idx, running_offset)
              /\ SubSeq(aligner'.results, 1, Len(aligner.results)) = aligner.results
              /\ aligner' = DriveLoop(Replaced(AudioNames[idx], Shifted(idx, running_offset)),
                                      sentences)
        /\ (EndFile \/ (RecoveryLoop /\ pc' = "loop" /\ ~Anchored)) =>
              /\ aligner'.words = aligner.words
              /\ SubSeq(aligner'.results, 1, Len(aligner.results)) = aligner.results ]_vars

\* C31 witness: the second a2.wav has begun; the words of a1.wav are still
\* in the stream, those appended for the first a2.wav are gone and the
\* cursor had to move back with them.
C31_Witness ==
    /\ pc = "loop" /\ idx = 3
    /\ asr[1].words # <<>> /\ asr[2].words # <<>> /\ asr[3].words # <<>>
    /\ Len(aligner.words) = Len(asr[1].words) + Len(asr[3].words)
    /\ aligner.words[1].src = "a1.wav"
    /\ aligner.words[Len(aligner.words)].src = "a2.wav"
    /\ aligner.sent_idx >= 1

\* The transcript d holds the times and the source of every timed result.
ResultsSaved(results, d) ==
    /\ d.exists
    /\ \A i \in 1..Min(Len(results), Len(sentences)) :
          results[i].start_ms # None =>
              /\ i <= Len(d.items)
              /\ d.items[i].start_ms = results[i].start_ms
              /\ d.items[i].end_ms = results[i].end_ms
              /\ d.items[i].audio_file = results[i].audio_file

\* A recovery step, or the step that takes the next file or ends the loop
\* over the files.
RecoveryOrNextFile ==
    \/ Anchored
    \/ Approximated
    \/ BeginFile
    \/ SkipFile
    \/ Finish

\* C32: a progress save follows every processed file and every recovery
\* step: what an anchor recovery or an approximation committed has been
\* written by save_progress_json before the next recovery step and before
\* the next file starts.
C32_SaveCadence ==
    [][ /\ RecoveryOrNextFile => ResultsSaved(aligner.results, disk)
        /\ EndFile => ResultsSaved(aligner'.results, disk') ]_vars

\* C32 witness: the second file starts; the transcript holds the spans an
\* approximation gave to the chunk of the first file.
C32_Witness ==
    /\ pc = "loop" /\ idx = 2
    /\ Len(aligner.results) >= 2
    /\ aligner.results[1].kind = "approx"
    /\ aligner.results[2].kind = "approx"
    /\ disk.exists
    /\ disk.items[2].end_ms = aligner.results[2].end_ms
    /\ disk.items[2].end_ms = asr[1].dur

\* C33: after sentence construction in structured mode the suborders of
\* the sentences carrying one order are 0, 1, 2, ... in stream order, with
\* no gap and no repeat, and a sentence with no order has a null suborder.
C33_Suborders ==
    pc \in {"ranges", "built"} =>
        \A i \in 1..Len(sentences) :
            IF sentences[i].order = None
            THEN sentences[i].suborder = None
            ELSE sentences[i].suborder =
                     Cardinality({j \in 1..(i - 1) : sentences[j].order = sentences[i].order})

\* C33 witness: an order comes back after another order, and a sentence
\* has none.
C33_Witness ==
    /\ pc = "built"
    /\ Len(sentences) = 4
    /\ [i \in 1..4 |-> sentences[i].order] = <<1, 2, 1, None>>
    /\ [i \in 1..4 |-> sentences[i].suborder] = <<0, 0, 1, None>>

\* The tokens of a sequence of sentences or pieces, in order.
RECURSIVE TokensOf(_)
TokensOf(items) ==
    IF items = <<>> THEN <<>> ELSE items[1].tokens \o TokensOf(Tail(items))

\* The sentences of the stream sents that carry chunk index c.
OfChunk(sents, c) == SelectSeq(sents, LAMBDA x : x.chunk = c)

\* The ranges are contiguous, do not overlap and cover [0, n).
Covering(ranges, n) ==
    /\ \A k \in 1..Len(ranges) : ranges[k][1] <= ranges[k][2]
    /\ \A k \in 1..(Len(ranges) - 1) : ranges[k][2] = ranges[k + 1][1]
    /\ ranges # <<>> => ranges[1][1] = 0 /\ ranges[Len(ranges)][2] = n
    /\ ranges = <<>> => n = 0

\* Range k holds exactly the sentences built from the k-th text chunk.
RangesMatchChunks(ranges, sents, chunk_texts) ==
    /\ Len(ranges) = Len(chunk_texts)
    /\ \A k \in 1..Len(ranges) :
          /\ \A i \in (ranges[k][1] + 1)..ranges[k][2] : sents[i].chunk = k - 1
          /\ TokensOf(SubSeq(sents, ranges[k][1] + 1, ranges[k][2]))
                 = TokensOf(chunk_texts[k])

\* C37: after short-sentence coalescing and _rebuild_chunk_ranges the
\* chunk ranges are contiguous, non-overlapping and cover
\* [0, len(sentences)); coalescing never merges sentences of different
\* chunks; and chunk_ranges[k] holds exactly the sentences built from the
\* k-th text chunk, so that range k bounds the aligner for audio file k.
C37_ChunkRanges ==
    [][ /\ CoalesceShort =>
              \A c \in 0..(Len(loc.chunk_texts) - 1) :
                  TokensOf(OfChunk(sentences', c)) = TokensOf(OfChunk(sentences, c))
        /\ RebuildChunkRanges =>
              /\ Covering(loc'.chunk_ranges, Len(sentences'))
              /\ RangesMatchChunks(loc'.chunk_ranges, sentences', loc'.chunk_texts) ]_vars

\* len(results) == sent_idx <= len(sentences)
CursorConsistent(a) ==
    /\ Len(a.results) = a.sent_idx
    /\ a.sent_idx <= Len(sentences)

\* C34: at every point of a run len(aligner.results) == aligner.sent_idx
\* <= len(sentences), so that results[i] is the result of sentences[i]
\* (every operation appends the result of sentences[sent_idx + j] at
\* position len(results) + j); and no operation of the run removes or
\* changes a result appended earlier in the run (the locals are released
\* when the process exits through a handler or is replaced by a new one).
C34_ResultCursor ==
    [][ /\ CursorConsistent(aligner)
        /\ CursorConsistent(aligner')
        /\ ~(Raise \/ Restart \/ Rerun) =>
              /\ Len(aligner'.results) >= Len(aligner.results)
              /\ SubSeq(aligner'.results, 1, Len(aligner.results)) = aligner.results ]_vars

\* C34 witness: a resumed run has primed a result, then matched a sentence
\* and filled the rest of a chunk by approximation.
C34_Witness ==
    /\ pc = "done"
    /\ restarts = 1
    /\ aligner.sent_idx = 3
    /\ Len(aligner.results) = 3
    /\ aligner.results[1].kind = "replay"
    /\ aligner.results[2].kind = "match"
    /\ aligner.results[3].kind = "approx"

\* Item i of a transcript written from results carries the times and the
\* source of results[i], or, for a placeholder without a timed result, the
\* end and the source of the nearest item before it that has an end.
Reflects(items, results) ==
    \A i \in 1..Len(items) :
        (items[i].start_ms # None \/ items[i].end_ms # None \/ items[i].audio_file # NoSrc) =>
            IF i <= Len(results) /\ results[i].start_ms # None
            THEN /\ items[i].start_ms = results[i].start_ms
                 /\ items[i].end_ms = results[i].end_ms
                 /\ items[i].audio_file = results[i].audio_file
            ELSE /\ sentences[i].placeholder
                 /\ \E p \in 1..(i - 1) :
                       /\ items[p].end_ms # None
                       /\ \A q \in (p + 1)..(i - 1) : items[q].end_ms = None
                       /\ items[i].start_ms = items[p].end_ms
                       /\ items[i].end_ms = items[p].end_ms

\* C35: every non-null start_ms, end_ms and audio_file that a save writes
\* for item i is the one of the aligner's current result for sentence i, or
\* the value a placeholder inherits; a timing that exists only in an
\* earlier save or an earlier run is never written back.
C35_SavedTimings ==
    [][ (disk' # disk /\ disk'.exists) =>
            Reflects(disk'.items, IF Raise THEN aligner.results ELSE aligner'.results) ]_vars

\* No file is being processed: the loop is between two files, before the
\* first or after the last.
NoFileInProcess == pc \in {"start", "file", "done"}

\* forced_src and stop_idx are cleared.
Cleared(a) == a.forced_src = NoSrc /\ a.stop_idx = None

\* C36: every sentence committed while audio file k is processed, by a
\* normal match, as a gap or the anchor of an anchor recovery, or by
\* approximation, is recorded with audio_file = the name of file k; and
\* forced_src and stop_idx are None whenever no file is being processed.
C36_Stamping ==
    [][ /\ (BeginFile \/ RecoveryLoop \/ EndFile) =>
              \A i \in 1..Len(Appended) :
                  Appended[i].kind \in {"match", "gap", "anchor", "approx"} =>
                      Appended[i].audio_file = AudioNames[idx]
        /\ NoFileInProcess => Cleared(aligner)
        /\ NoFileInProcess' => Cleared(aligner') ]_vars

\* C36 witness: the second file is done; a match and an approximation were
\* committed during it, and the stamp and the bound are cleared again.
C36_Witness ==
    /\ pc = "file" /\ idx = 3
    /\ Cleared(aligner)
    /\ \E i \in 1..Len(aligner.results) :
          aligner.results[i].kind = "match" /\ aligner.results[i].audio_file = AudioNames[2]
    /\ \E i \in 1..Len(aligner.results) :
          aligner.results[i].kind = "approx" /\ aligner.results[i].audio_file = AudioNames[2]

\* The number of times part c is listed among the children of part k.
ListedIn(m, c, k) ==
    Cardinality({j \in 1..Len(m.prefix_children[k + 1]) : m.prefix_children[k + 1][j] = c})
    + Cardinality({j \in 1..Len(m.suffix_children[k + 1]) : m.suffix_children[k + 1][j] = c})

PartIdx(m) == 0..(Len(m.lens) - 1)

\* Every part is a carrier, listed nowhere, or attached to one carrier and
\* listed exactly once, among the children of that carrier.
Attachment(m) ==
    \A c \in PartIdx(m) :
        IF m.attached_to[c + 1] = None
        THEN \A k \in PartIdx(m) : ListedIn(m, c, k) = 0
        ELSE /\ m.attached_to[c + 1] \in PartIdx(m)
             /\ m.attached_to[m.attached_to[c + 1] + 1] = None
             /\ \A k \in PartIdx(m) :
                   ListedIn(m, c, k) = (IF k = m.attached_to[c + 1] THEN 1 ELSE 0)

\* An attached part belongs to the chunk of its carrier.
SameChunk(m) ==
    \A c \in PartIdx(m) :
        m.attached_to[c + 1] # None => m.chunk[c + 1] = m.chunk[m.attached_to[c + 1] + 1]

\* One sentence per part, a placeholder exactly for the attached parts.
OnePerPart(m, sents) ==
    /\ Len(sents) = Len(m.lens)
    /\ \A c \in PartIdx(m) :
          /\ sents[c + 1].text_part_index = c
          /\ sents[c + 1].placeholder = (m.attached_to[c + 1] # None)

\* A call of shift_suffix_to_next on a part that has a suffix child after
\* which no part is a carrier.
ShiftWithoutTarget ==
    \E i \in 0..(MaxParts - 1) :
        /\ Shift(i)
        /\ has_suffix_attachment(loc, i)
        /\ \A j \in (Head(loc.suffix_children[i + 1]) + 1)..(Len(loc.lens) - 1) :
              loc.attached_to[j + 1] # None

LeavesOrAdvances ==
    \/ pc' # "loop"
    \/ aligner'.sent_idx > aligner.sent_idx

\* An advance iteration (sent_idx > prev_sent_idx, audio left) whose extend
\* commits nothing: it sets prev_sent_idx = sent_idx, so that the next
\* iteration finds the sentence stalled.
IdleAdvance ==
    /\ aligner.sent_idx > loc.prev_sent_idx
    /\ pc' = "loop"
    /\ aligner'.sent_idx = aligner.sent_idx
    /\ loc'.prev_sent_idx = aligner'.sent_idx

\* No run takes steps forever without writing its terminal line.
EventuallyTerminal == []<>(pc = "done" /\ out # <<>>) \/ <>[][FALSE]_vars

\* The iterations of the recovery loop of a file: an iteration that stays
\* in the loop without committing is followed by one that commits or leaves.
BoundedIterations == loc.iters <= 2 * Len(sentences) + 1

\* C39 as stated: the recovery loop of a file terminates, each iteration
\* either leaving the loop or strictly increasing sent_idx, and the run
\* eventually writes its terminal line.
C39_EveryIterationAdvances ==
    /\ [][RecoveryLoop => LeavesOrAdvances]_vars
    /\ []BoundedIterations
    /\ EventuallyTerminal

\* C39: the recovery loop of a file terminates: an iteration on a stalled
\* sentence leaves the loop or strictly increases sent_idx, and any other
\* iteration does so or is an advance that commits nothing and leaves the
\* sentence stalled for the next iteration; and the run eventually writes
\* its terminal line.
C39_Termination ==
    /\ [][RecoveryLoop => (LeavesOrAdvances \/ IdleAdvance)]_vars
    /\ []BoundedIterations
    /\ EventuallyTerminal

\* C39 witness: an advance iteration has committed nothing; the loop is
\* at the sentence it was at before, now stalled.
C39_Witness ==
    /\ pc = "loop"
    /\ aligner.sent_idx = loc.prev_sent_idx
    /\ loc.prev_sent_idx > loc.file_start_sent_idx
    /\ aligner.sent_idx < Len(sentences)

\* final_log runs in this step: the process writes its terminal line.
WritesTerminalLine == pc # "done" /\ pc' = "done"

====
